---- MODULE Spec2Model ----
(***************************************************************************)
(* Knowledge graph (entities / observations / relations) over one SQLite   *)
(* connection, with an optional read-through cache and a shared reentrant  *)
(* lock.  Storage rows, the cache contents and the position of every       *)
(* thread inside a manager call are the state; every facade operation is   *)
(* an action.                                                              *)
(*                                                                         *)
(* Abstractions: wall-clock values (created_at, updated_at, the stats      *)
(* timestamp, the file size) are not modelled; uuid4 ids are fresh ids     *)
(* drawn in creation order; md5 is injective on the key strings; rows that *)
(* SQL returns in unspecified order are taken in rowid order.              *)
(***************************************************************************)
EXTENDS Integers, Sequences, FiniteSets, TLC

(***************************************************************************)
(* Bounds and input domains                                                *)
(***************************************************************************)
MaxEntities == 2
MaxObservations == 1
MaxRelations == 1
MaxCached == 1
MaxCachedEntityReads == 3
MaxCachedUnderFaults == 2
MaxWorkers == 1
MaxRelationsOfTwo == 3

Names == {"a", "ab"}
Types == {"f"}
PropVals == {"p"}
ObsTexts == {"o"}
RelTypes == {"calls"}
\* confidence in hundredths: 0.9, and -0.1 and 1.1 outside the range
Confidences == {90, 0 - 10, 110}
Queries == {"a"}
Directions == {"both"}

\* Python's None as an argument value; str(None) is "None"
NONE == "<None>"

DefaultObsLimit == 100
DefaultSearchLimit == 10
DefaultMinSimilarity == 0

EntityId(n) == "e" \o ToString(n)
ObservationId(n) == "o" \o ToString(n)
RelationId(n) == "r" \o ToString(n)

EntityIds == {EntityId(n) : n \in 1..MaxEntities}
ObservationIds == {ObservationId(n) : n \in 1..MaxObservations}
RelationIds == {RelationId(n) : n \in 1..MaxRelations}

(***************************************************************************)
(* Operation results as seen by the caller of the facade                   *)
(***************************************************************************)
Ok(v) == [status |-> "ok", value |-> v]
Err(kind) == [status |-> kind, value |-> <<>>]

(***************************************************************************)
(* Storage: three tables.  A table is a function from the ids of its rows  *)
(* to the rows; rowid is the insertion order SQLite keeps.                 *)
(***************************************************************************)
EmptyDb == [ents |-> <<>>, obs |-> <<>>, rels |-> <<>>]

\* the smallest element of a non-empty set of integers
SetMin(S) == CHOOSE x \in S : \A y \in S : x <= y

\* the elements of a finite set, ordered by ascending rank (a function on S)
RECURSIVE SortByRank(_, _)
SortByRank(S, rank) ==
    IF S = {} THEN <<>>
    ELSE LET m == SetMin({rank[x] : x \in S})
             x == CHOOSE y \in S : rank[y] = m
         IN <<x>> \o SortByRank(S \ {x}, rank)

Take(s, n) == SubSeq(s, 1, IF Len(s) < n THEN Len(s) ELSE n)

NextRowid(table) ==
    IF DOMAIN table = {} THEN 1
    ELSE 1 + CHOOSE m \in {table[i].rowid : i \in DOMAIN table} :
                 \A i \in DOMAIN table : table[i].rowid <= m

\* rows of a table with the given ids removed
Without(table, ids) == [i \in (DOMAIN table) \ ids |-> table[i]]

ForeignKeysOff == FALSE

\* conn.execute("PRAGMA foreign_keys = ON") on every connection the manager opens
ForeignKeys == TRUE

\* one SQL statement applied to the tables the connection sees.  With foreign
\* keys on, deleting an entity deletes the observations and relations that
\* reference it (ON DELETE CASCADE).  The operations insert an observation or
\* a relation only after they found its entities, under the lock.
Execute(d, stmt) ==
    CASE stmt.sql = "INSERT entities" ->
           [d EXCEPT !.ents = (stmt.id :> [rowid |-> NextRowid(d.ents),
                                           name |-> stmt.name,
                                           entity_type |-> stmt.entity_type,
                                           properties |-> stmt.properties]) @@ d.ents]
      [] stmt.sql = "UPDATE entities" ->
           [d EXCEPT !.ents = [i \in DOMAIN d.ents |->
               IF i # stmt.id THEN d.ents[i]
               ELSE [rowid |-> d.ents[i].rowid,
                     name |-> IF stmt.name = NONE THEN d.ents[i].name ELSE stmt.name,
                     entity_type |-> IF stmt.entity_type = NONE
                                     THEN d.ents[i].entity_type ELSE stmt.entity_type,
                     properties |-> IF stmt.properties = NONE
                                    THEN d.ents[i].properties ELSE stmt.properties]]]
      [] stmt.sql = "TOUCH entities" -> d
      [] stmt.sql = "DELETE entities" ->
           IF ~ForeignKeys THEN [d EXCEPT !.ents = Without(d.ents, {stmt.id})]
           ELSE
           [ents |-> Without(d.ents, {stmt.id}),
            obs |-> Without(d.obs, {o \in DOMAIN d.obs : d.obs[o].entity_id = stmt.id}),
            rels |-> Without(d.rels, {r \in DOMAIN d.rels :
                                        \/ d.rels[r].from_entity_id = stmt.id
                                        \/ d.rels[r].to_entity_id = stmt.id})]
      [] stmt.sql = "INSERT observations" ->
           [d EXCEPT !.obs = (stmt.id :> [rowid |-> NextRowid(d.obs),
                                          entity_id |-> stmt.entity_id,
                                          observation |-> stmt.observation]) @@ d.obs]
      [] stmt.sql = "DELETE observations" ->
           [d EXCEPT !.obs = Without(d.obs, {stmt.id})]
      [] stmt.sql = "INSERT relations" ->
           [d EXCEPT !.rels = (stmt.id :> [rowid |-> NextRowid(d.rels),
                                           from_entity_id |-> stmt.from_entity_id,
                                           to_entity_id |-> stmt.to_entity_id,
                                           relation_type |-> stmt.relation_type,
                                           confidence |-> stmt.confidence]) @@ d.rels]
      [] stmt.sql = "DELETE relations" ->
           [d EXCEPT !.rels = Without(d.rels, {stmt.id})]
      [] stmt.sql = "DELETE FROM relations" -> [d EXCEPT !.rels = <<>>]
      [] stmt.sql = "DELETE FROM observations" -> [d EXCEPT !.obs = <<>>]
      [] stmt.sql = "DELETE FROM entities" ->
           IF ForeignKeys THEN EmptyDb ELSE [d EXCEPT !.ents = <<>>]

RECURSIVE ExecuteAll(_, _)
ExecuteAll(d, stmts) ==
    IF stmts = <<>> THEN d ELSE ExecuteAll(Execute(d, Head(stmts)), Tail(stmts))

Touch(id) == [sql |-> "TOUCH entities", id |-> id]

\* ids of a table's rows satisfying nothing but membership, in rowid order
RowsInOrder(table, ids) == SortByRank(ids, [i \in ids |-> table[i].rowid])
RowsNewestFirst(table, ids) == SortByRank(ids, [i \in ids |-> 0 - table[i].rowid])

MapSeq(s, f) == [i \in 1..Len(s) |-> f[s[i]]]

(***************************************************************************)
(* Cache coordinator                                                       *)
(***************************************************************************)
\* hashlib.md5(...).hexdigest(): collision-free on the key strings used here
Md5(key_string) == "md5<" \o key_string \o ">"

RECURSIVE JoinColon(_)
JoinColon(parts) ==
    IF Len(parts) = 1 THEN parts[1]
    ELSE parts[1] \o ":" \o JoinColon(Tail(parts))

\* str(arg) of an argument that is None or already text
Str(arg) == IF arg = NONE THEN "None" ELSE arg

\* str(x) of a float given in hundredths, for the multiples of 0.1 in [0, 1]
StrFloat(hundredths) ==
    IF hundredths = 100 THEN "1.0" ELSE "0." \o ToString(hundredths \div 10)

\* args are the positional arguments after str(); no call site passes kwargs
get_cache_key(operation, args) ==
    "kg:" \o operation \o ":" \o Md5(JoinColon(<<operation>> \o args))

StatsKey == "kg:stats"

\* the glob patterns the code uses are a literal prefix followed by "*",
\* or a literal key
GlobMatch(pattern, key) ==
    IF SubSeq(pattern, Len(pattern), Len(pattern)) = "*"
    THEN /\ Len(key) >= Len(pattern) - 1
         /\ SubSeq(key, 1, Len(pattern) - 1) = SubSeq(pattern, 1, Len(pattern) - 1)
    ELSE key = pattern

\* cache backend: keys(pattern), delete(*keys), set(key, value, ex), get(key).
\* The backend holds at most cap entries; a set beyond that is an entry that
\* is evicted at once.
CacheKeys(c, pattern) == {k \in DOMAIN c : GlobMatch(pattern, k)}
CacheDelete(c, keys) == [k \in (DOMAIN c) \ keys |-> c[k]]
CacheSet(c, k, v, cap) ==
    IF k \in DOMAIN c \/ Cardinality(DOMAIN c) < cap
    THEN (k :> v) @@ c
    ELSE c

\* redis_client as the operations receive it: on = a client is configured,
\* fail = the client methods that raise when called, cap = the entries the
\* backend keeps
NoClient == [on |-> FALSE, fail |-> {}, cap |-> 0]
Client(fail, cap) == [on |-> TRUE, fail |-> fail, cap |-> cap]

CacheHitIgnored(rc, c, cache_key) == FALSE

\* "if redis_client: cached_data = redis_client.get(cache_key); if cached_data:"
CacheHit(rc, c, cache_key) == rc.on /\ "get" \notin rc.fail /\ cache_key \in DOMAIN c

\* redis_client.set(...) inside try/except: a failure leaves the cache as it is
TrySet(rc, c, cache_key, v) ==
    IF rc.on /\ "set" \notin rc.fail THEN CacheSet(c, cache_key, v, rc.cap) ELSE c

invalidate_cache(rc, c, pattern) ==
    IF ~rc.on THEN c
    ELSE IF "keys" \in rc.fail THEN c
    ELSE IF CacheKeys(c, pattern) = {} THEN c
    ELSE IF "delete" \in rc.fail THEN c
    ELSE CacheDelete(c, CacheKeys(c, pattern))

RECURSIVE InvalidateAll(_, _, _)
InvalidateAll(rc, c, patterns) ==
    IF patterns = <<>> THEN c
    ELSE InvalidateAll(rc, invalidate_cache(rc, c, Head(patterns)), Tail(patterns))

\* json.dumps(x.to_dict()) and json.loads + from_dict
ToJson(v) == [json |-> v]
FromJson(j) == j.json

(***************************************************************************)
(* Read operations.  d is what the connection sees, c the cache, rc the    *)
(* redis_client.  Each returns the result, the cache afterwards and the    *)
(* number of execute_with_retry calls it made.                             *)
(***************************************************************************)
Outcome(res, c, stmts) == [res |-> res, cache |-> c, stmts |-> stmts]

MissingEntityAsEmpty == Ok(<<>>)

\* get_observations, get_relations: "if not cursor.fetchone(): raise
\* EntityNotFoundError", re-raised unwrapped by the operation and the API layer
MissingEntity == Err("EntityNotFoundError")

ObservationsOf(d, entity_id) == {o \in DOMAIN d.obs : d.obs[o].entity_id = entity_id}

_add_observations_to_entity(d, entity) ==
    LET ids == RowsNewestFirst(d.obs, ObservationsOf(d, entity.id))
    IN [entity EXCEPT !.has_observations = TRUE,
                      !.observations = [i \in 1..Len(ids) |-> d.obs[ids[i]].observation]]

EntityOfRowWithoutProperties(d, id) ==
    [id |-> id, name |-> d.ents[id].name, entity_type |-> d.ents[id].entity_type,
     properties |-> NONE,
     has_observations |-> FALSE, observations |-> <<>>]

\* Entity(id=row['id'], name=row['name'], ..., properties=properties_val);
\* has_observations stands for the key "observations" of entity.properties,
\* observations for its value
EntityOfRow(d, id) ==
    [id |-> id, name |-> d.ents[id].name, entity_type |-> d.ents[id].entity_type,
     properties |-> d.ents[id].properties,
     has_observations |-> FALSE, observations |-> <<>>]

get_entity(d, c, rc, entity_id) ==
    LET cache_key == get_cache_key("get_entity", <<entity_id>>) IN
    IF entity_id = "" THEN Outcome(Err("ValueError"), c, 0)
    ELSE IF CacheHit(rc, c, cache_key)
    THEN Outcome(Ok(<<FromJson(c[cache_key])>>), c, 0)
    ELSE IF entity_id \notin DOMAIN d.ents THEN Outcome(Ok(<<>>), c, 1)
    ELSE LET entity == _add_observations_to_entity(d, EntityOfRow(d, entity_id))
         IN Outcome(Ok(<<entity>>),
                    TrySet(rc, c, cache_key, ToJson(entity)), 2)

get_entity_by_name(d, c, rc, name) ==
    LET cache_key == get_cache_key("get_entity_by_name", <<name>>)
        rows == {i \in DOMAIN d.ents : d.ents[i].name = name}
    IN
    IF name = "" THEN Outcome(Err("ValueError"), c, 0)
    ELSE IF CacheHit(rc, c, cache_key)
    THEN Outcome(Ok(<<FromJson(c[cache_key])>>), c, 0)
    ELSE IF rows = {} THEN Outcome(Ok(<<>>), c, 1)
    ELSE LET id == RowsInOrder(d.ents, rows)[1]
             entity == _add_observations_to_entity(d, EntityOfRow(d, id))
         IN Outcome(Ok(<<entity>>),
                    TrySet(rc, c, cache_key, ToJson(entity)), 2)

ObservationOfRow(d, o) ==
    [id |-> o, entity_id |-> d.obs[o].entity_id, observation |-> d.obs[o].observation]

get_observations(d, c, rc, entity_id, limit) ==
    LET cache_key == get_cache_key("get_observations", <<entity_id, ToString(limit)>>) IN
    IF entity_id = "" THEN Outcome(Err("ValueError"), c, 0)
    ELSE IF rc.on /\ "get" \in rc.fail THEN Outcome(Err("CacheError"), c, 0)
    ELSE IF CacheHit(rc, c, cache_key)
    THEN Outcome(Ok(FromJson(c[cache_key])), c, 0)
    ELSE IF entity_id \notin DOMAIN d.ents THEN Outcome(MissingEntity, c, 1)
    ELSE LET ids == Take(RowsNewestFirst(d.obs, ObservationsOf(d, entity_id)), limit)
             observations_list == [i \in 1..Len(ids) |-> ObservationOfRow(d, ids[i])]
         IN Outcome(Ok(observations_list),
                    TrySet(rc, c, cache_key, ToJson(observations_list)), 2)

RelationDict(d, r, direction) ==
    [id |-> r,
     from_entity_id |-> d.rels[r].from_entity_id,
     from_entity_name |-> d.ents[d.rels[r].from_entity_id].name,
     to_entity_id |-> d.rels[r].to_entity_id,
     to_entity_name |-> d.ents[d.rels[r].to_entity_id].name,
     relation_type |-> d.rels[r].relation_type,
     confidence |-> d.rels[r].confidence,
     direction |-> direction]

get_relations(d, c, rc, entity_id, direction, relation_type) ==
    LET cache_key == get_cache_key("get_relations",
                                   <<entity_id, direction, Str(relation_type)>>)
        typed(r) == relation_type = NONE \/ d.rels[r].relation_type = relation_type
        outgoing == IF direction \in {"outgoing", "both"}
                    THEN RowsInOrder(d.rels, {r \in DOMAIN d.rels :
                             d.rels[r].from_entity_id = entity_id /\ typed(r)})
                    ELSE <<>>
        incoming == IF direction \in {"incoming", "both"}
                    THEN RowsInOrder(d.rels, {r \in DOMAIN d.rels :
                             d.rels[r].to_entity_id = entity_id /\ typed(r)})
                    ELSE <<>>
        relations_data ==
            [i \in 1..Len(outgoing) |-> RelationDict(d, outgoing[i], "outgoing")]
            \o [i \in 1..Len(incoming) |-> RelationDict(d, incoming[i], "incoming")]
    IN
    IF entity_id = "" \/ direction \notin {"outgoing", "incoming", "both"}
    THEN Outcome(Err("ValueError"), c, 0)
    ELSE IF rc.on /\ "get" \in rc.fail THEN Outcome(Err("CacheError"), c, 0)
    ELSE IF CacheHit(rc, c, cache_key)
    THEN Outcome(Ok(FromJson(c[cache_key])), c, 0)
    ELSE IF entity_id \notin DOMAIN d.ents THEN Outcome(MissingEntity, c, 1)
    ELSE Outcome(Ok(relations_data),
                 TrySet(rc, c, cache_key, ToJson(relations_data)),
                 1 + (IF direction = "both" THEN 2 ELSE 1))

\* SQL "name LIKE '%q%'" and the lower-cased comparisons of the similarity
\* tiers agree on the lower-case, wildcard-free names and queries used here
StartsWith(name, q) == Len(q) <= Len(name) /\ SubSeq(name, 1, Len(q)) = q
Contains(name, q) ==
    \E i \in 1..(Len(name) - Len(q) + 1) : SubSeq(name, i, i + Len(q) - 1) = q

\* ORDER BY CASE ... END of the text query
LikeRank(name, q) ==
    IF name = q THEN 1 ELSE IF StartsWith(name, q) THEN 2
    ELSE IF Contains(name, q) THEN 3 ELSE 4

\* similarity tiers, in hundredths
TextSimilarity(name, q) ==
    IF name = q THEN 100 ELSE IF StartsWith(name, q) THEN 80
    ELSE IF Contains(name, q) THEN 60 ELSE 40

BelowMinimumNever(similarity, min_similarity) == FALSE

\* "if similarity < min_similarity: continue"
BelowMinimum(similarity, min_similarity) == similarity < min_similarity

\* weight that orders pairs (rank, rowid) by rank first: no rowid and no list
\* position reaches it
RowidCeiling == MaxEntities + 1

search_entities(d, c, rc, query, entity_type, limit, min_similarity) ==
    LET cache_key == get_cache_key("search_entities",
                        <<query, Str(entity_type), ToString(limit), StrFloat(min_similarity)>>)
        \* the statement's eight placeholders take the eight parameters by
        \* position, and the list puts *params after the three ORDER BY
        \* patterns: with a type filter "entity_type = ?" receives query, the
        \* CASE receives "query%", "%query%" and entity_type
        matching == {i \in DOMAIN d.ents :
                       /\ Contains(d.ents[i].name, query)
                       /\ entity_type = NONE \/ d.ents[i].entity_type = query}
        rank(i) == IF entity_type = NONE THEN LikeRank(d.ents[i].name, query)
                   ELSE IF StartsWith(d.ents[i].name, query) THEN 1 ELSE 2
        entities_to_check ==
            Take(SortByRank(matching, [i \in matching |->
                     rank(i) * RowidCeiling + d.ents[i].rowid]),
                 limit)
        sim(i) == TextSimilarity(d.ents[i].name, query)
        kept == SelectSeq(entities_to_check,
                          LAMBDA i : ~BelowMinimum(sim(i), min_similarity))
        pos == [i \in {kept[n] : n \in 1..Len(kept)} |->
                  CHOOSE n \in 1..Len(kept) : kept[n] = i]
        sorted == SortByRank(DOMAIN pos, [i \in DOMAIN pos |->
                      (100 - sim(i)) * RowidCeiling + pos[i]])
        top == Take(sorted, limit)
        results == [n \in 1..Len(top) |->
                      [id |-> top[n], name |-> d.ents[top[n]].name,
                       entity_type |-> d.ents[top[n]].entity_type,
                       properties |-> d.ents[top[n]].properties,
                       similarity |-> sim(top[n]),
                       observation_count |-> Cardinality(ObservationsOf(d, top[n]))]]
    IN
    IF query = "" THEN Outcome(Err("ValueError"), c, 0)
    ELSE IF rc.on /\ "get" \in rc.fail THEN Outcome(Err("CacheError"), c, 0)
    ELSE IF CacheHit(rc, c, cache_key)
    THEN Outcome(Ok(FromJson(c[cache_key])), c, 0)
    ELSE Outcome(Ok(results), TrySet(rc, c, cache_key, ToJson(results)),
                 1 + Len(results))

CountBy(table, field, v) == Cardinality({i \in DOMAIN table : table[i][field] = v})

StatsOf(d) ==
    LET etypes == {d.ents[i].entity_type : i \in DOMAIN d.ents}
        rtypes == {d.rels[r].relation_type : r \in DOMAIN d.rels}
        observed == {i \in DOMAIN d.ents : ObservationsOf(d, i) # {}}
        onames == {d.ents[i].name : i \in observed}
    IN [entity_count |-> Cardinality(DOMAIN d.ents),
        relation_count |-> Cardinality(DOMAIN d.rels),
        observation_count |-> Cardinality(DOMAIN d.obs),
        entity_types |-> [t \in etypes |-> CountBy(d.ents, "entity_type", t)],
        relation_types |-> [t \in rtypes |-> CountBy(d.rels, "relation_type", t)],
        top_observed_entities |-> [n \in onames |->
            SetMin({Cardinality(ObservationsOf(d, i)) :
                      i \in {j \in observed : d.ents[j].name = n}})]]

get_knowledge_graph_stats(d, c, rc) ==
    IF CacheHit(rc, c, StatsKey)
    THEN Outcome(Ok(<<FromJson(c[StatsKey])>>), c, 0)
    ELSE Outcome(Ok(<<StatsOf(d)>>), TrySet(rc, c, StatsKey, ToJson(StatsOf(d))), 6)

(***************************************************************************)
(* Write operations.  Each is what the function does under the lock, as a  *)
(* plan: the result it returns, the cache after the reads it makes before  *)
(* its first statement, the statements it executes before commit, the      *)
(* cache entries it sets and the key patterns it invalidates after commit. *)
(***************************************************************************)
PlanInvalidatingFirst(res, pre, stmts, sets, patterns) ==
    [res |-> res, pre |-> InvalidateAll(Client({}, 0), pre, patterns),
     stmts |-> stmts, sets |-> sets, patterns |-> patterns]

Plan(res, pre, stmts, sets, patterns) ==
    [res |-> res, pre |-> pre, stmts |-> stmts, sets |-> sets, patterns |-> patterns]

NoWrite(res, c) == Plan(res, c, <<>>, <<>>, <<>>)

\* str.strip() for the blank character
RECURSIVE Strip(_)
Strip(str) ==
    IF Len(str) = 0 THEN str
    ELSE IF SubSeq(str, 1, 1) = " " THEN Strip(SubSeq(str, 2, Len(str)))
    ELSE IF SubSeq(str, Len(str), Len(str)) = " " THEN Strip(SubSeq(str, 1, Len(str) - 1))
    ELSE str

CreateEntityPatterns == <<"kg:get_entity_by_name*", "kg:search_entities*">>

ExistingByName(d, name, entity_type) == {i \in DOMAIN d.ents : d.ents[i].name = name}

\* "SELECT id FROM entities WHERE name = ? AND entity_type = ?"
Existing(d, name, entity_type) ==
    {i \in DOMAIN d.ents : d.ents[i].name = name /\ d.ents[i].entity_type = entity_type}

create_entity(d, c, rc, name, entity_type, properties, new_id) ==
    LET existing == Existing(d, name, entity_type)
        entity == [id |-> new_id, name |-> name, entity_type |-> entity_type,
                   properties |-> properties,
                   has_observations |-> FALSE, observations |-> <<>>]
    IN
    IF Strip(name) = "" \/ Strip(entity_type) = "" THEN NoWrite(Err("ValueError"), c)
    ELSE IF existing # {} THEN NoWrite(Ok(<<RowsInOrder(d.ents, existing)[1]>>), c)
    ELSE Plan(Ok(<<new_id>>), c,
              <<[sql |-> "INSERT entities", id |-> new_id, name |-> name,
                 entity_type |-> entity_type, properties |-> properties]>>,
              <<[key |-> get_cache_key("get_entity", <<new_id>>), value |-> ToJson(entity)]>>,
              CreateEntityPatterns)

UpdateEntityPatternsKeepingGetEntity ==
    <<"kg:get_entity_by_name*", "kg:search_entities*">>

UpdateEntityPatterns ==
    <<"kg:get_entity*", "kg:get_entity_by_name*", "kg:search_entities*">>

update_entity(d, c, rc, entity_id, name, entity_type, properties) ==
    IF entity_id = "" THEN NoWrite(Err("ValueError"), c)
    ELSE IF entity_id \notin DOMAIN d.ents THEN NoWrite(Ok(<<FALSE>>), c)
    ELSE Plan(Ok(<<TRUE>>), c,
              <<[sql |-> "UPDATE entities", id |-> entity_id, name |-> name,
                 entity_type |-> entity_type, properties |-> properties]>>,
              <<>>, UpdateEntityPatterns)

DeleteEntityPatterns ==
    <<"kg:get_entity*", "kg:get_entity_by_name*", "kg:search_entities*", "kg:get_relations*">>

delete_entity(d, c, rc, entity_id) ==
    LET found == get_entity(d, c, rc, entity_id) IN
    IF entity_id = "" THEN NoWrite(Err("ValueError"), c)
    ELSE IF found.res.value = <<>> THEN NoWrite(Ok(<<FALSE>>), found.cache)
    ELSE Plan(Ok(<<TRUE>>), found.cache,
              <<[sql |-> "DELETE entities", id |-> entity_id]>>,
              <<>>, DeleteEntityPatterns)

ObservationPatterns ==
    <<"kg:get_entity*", "kg:get_entity_by_name*", "kg:get_observations*">>

add_observation_unchecked(d, c, rc, entity_id, observation, new_id) ==
    IF entity_id = "" \/ observation = "" THEN NoWrite(Err("ValueError"), c)
    ELSE Plan(Ok(<<new_id>>), c,
              <<[sql |-> "INSERT observations", id |-> new_id,
                 entity_id |-> entity_id, observation |-> observation],
                Touch(entity_id)>>,
              <<>>, ObservationPatterns)

add_observation(d, c, rc, entity_id, observation, new_id) ==
    IF entity_id = "" \/ observation = "" THEN NoWrite(Err("ValueError"), c)
    ELSE IF entity_id \notin DOMAIN d.ents THEN NoWrite(Err("EntityNotFoundError"), c)
    ELSE Plan(Ok(<<new_id>>), c,
              <<[sql |-> "INSERT observations", id |-> new_id,
                 entity_id |-> entity_id, observation |-> observation],
                Touch(entity_id)>>,
              <<>>, ObservationPatterns)

delete_observation(d, c, rc, observation_id) ==
    IF observation_id = "" THEN NoWrite(Err("ValueError"), c)
    ELSE IF observation_id \notin DOMAIN d.obs THEN NoWrite(Ok(<<FALSE>>), c)
    ELSE Plan(Ok(<<TRUE>>), c,
              <<[sql |-> "DELETE observations", id |-> observation_id],
                Touch(d.obs[observation_id].entity_id)>>,
              <<>>, ObservationPatterns)

CreateRelationPatterns == <<"kg:get_relations*", "kg:get_entity*">>

ConfidenceNegative(confidence) == confidence < 0

\* "if confidence < 0.0 or confidence > 1.0", in hundredths
ConfidenceOutOfRange(confidence) == confidence < 0 \/ confidence > 100

ExistingRelationNever(d, from_entity_id, to_entity_id, relation_type) == {}

\* "SELECT id FROM relations WHERE from_entity_id = ? AND to_entity_id = ? AND
\* relation_type = ?"
ExistingRelation(d, from_entity_id, to_entity_id, relation_type) ==
    {r \in DOMAIN d.rels : /\ d.rels[r].from_entity_id = from_entity_id
                           /\ d.rels[r].to_entity_id = to_entity_id
                           /\ d.rels[r].relation_type = relation_type}

create_relation(d, c, rc, from_entity_id, to_entity_id, relation_type, confidence, new_id) ==
    LET existing == ExistingRelation(d, from_entity_id, to_entity_id, relation_type)
    IN
    IF from_entity_id = "" \/ to_entity_id = "" \/ relation_type = ""
    THEN NoWrite(Err("ValueError"), c)
    ELSE IF ConfidenceOutOfRange(confidence) THEN NoWrite(Err("ValueError"), c)
    ELSE IF from_entity_id \notin DOMAIN d.ents \/ to_entity_id \notin DOMAIN d.ents
    THEN NoWrite(Err("EntityNotFoundError"), c)
    ELSE IF existing # {} THEN NoWrite(Ok(<<RowsInOrder(d.rels, existing)[1]>>), c)
    ELSE Plan(Ok(<<new_id>>), c,
              <<[sql |-> "INSERT relations", id |-> new_id,
                 from_entity_id |-> from_entity_id, to_entity_id |-> to_entity_id,
                 relation_type |-> relation_type, confidence |-> confidence],
                Touch(from_entity_id), Touch(to_entity_id)>>,
              <<>>, CreateRelationPatterns)

DeleteRelationPatterns == <<"kg:get_relations*">>

delete_relation(d, c, rc, relation_id) ==
    IF relation_id = "" THEN NoWrite(Err("ValueError"), c)
    ELSE IF relation_id \notin DOMAIN d.rels THEN NoWrite(Ok(<<FALSE>>), c)
    ELSE Plan(Ok(<<TRUE>>), c,
              <<[sql |-> "DELETE relations", id |-> relation_id],
                Touch(d.rels[relation_id].from_entity_id),
                Touch(d.rels[relation_id].to_entity_id)>>,
              <<>>, DeleteRelationPatterns)

ClearPatternsStatsOnly == <<StatsKey>>

\* redis_client.keys("kg:*") and redis_client.delete(*keys), in one try block
ClearPatterns == <<"kg:*">>

clear_knowledge_graph(d, c, rc) ==
    Plan(Ok(<<[entity_count |-> Cardinality(DOMAIN d.ents),
               relation_count |-> Cardinality(DOMAIN d.rels),
               observation_count |-> Cardinality(DOMAIN d.obs)]>>), c,
         <<[sql |-> "DELETE FROM relations"], [sql |-> "DELETE FROM observations"],
           [sql |-> "DELETE FROM entities"]>>,
         <<>>, ClearPatterns)

\* the cache after a committed plan: "if redis_client:" set, then invalidate
RECURSIVE ApplySets(_, _, _)
ApplySets(rc, c, sets) ==
    IF sets = <<>> THEN c
    ELSE ApplySets(rc, TrySet(rc, c, Head(sets).key, Head(sets).value), Tail(sets))

AfterCommit(rc, plan) ==
    IF plan.stmts = <<>> THEN plan.pre
    ELSE InvalidateAll(rc, ApplySets(rc, plan.pre, plan.sets), plan.patterns)

\* what the API layer hands to the facade's caller: EntityNotFoundError is
\* re-raised, every other exception is wrapped in KnowledgeGraphError
ApiResult(res) ==
    IF res.status \in {"ok", "EntityNotFoundError"} THEN res
    ELSE Err("KnowledgeGraphError")

(***************************************************************************)
(* execute_with_retry                                                      *)
(***************************************************************************)
\* what cursor.execute does in one attempt: it returns, or raises
\*   locked       sqlite3.OperationalError "database is locked"
\*   operational  sqlite3.OperationalError with another message
\*   integrity    sqlite3.IntegrityError
\*   lockedOther  an exception of another class whose text holds
\*                "database is locked"
AttemptOutcomes == {"ok", "locked", "operational", "integrity", "lockedOther"}

\* except sqlite3.OperationalError as e
IsOperationalError(outcome) == outcome \in {"locked", "operational"}

\* "database is locked" in str(e)
SaysLocked(outcome) == outcome \in {"locked", "lockedOther"}

IsTransientAnyOperational(outcome) == IsOperationalError(outcome)

\* the error the loop retries
IsTransient(outcome) == IsOperationalError(outcome) /\ SaysLocked(outcome)

MayRetryOnLastAttempt(retry_count, max_retries) == retry_count < max_retries

\* retry_count < max_retries - 1
MayRetry(retry_count, max_retries) == retry_count < max_retries - 1

\* time.sleep(0.1 * (2 ** retry_count)), in tenths of a second
Backoff(retry_count) == 2 ^ retry_count

\* no call in progress; log = the attempts' outcomes and the sleeps, in order
NoRetry == [pc |-> "idle", max_retries |-> 0, retry_count |-> 0, log |-> <<>>,
            error |-> NONE]

(***************************************************************************)
(* The connection manager                                                  *)
(***************************************************************************)
\* cur = self._conn (0 for None), made = the connections opened so far,
\* live = the sqlite connections not closed, fk = those with
\* foreign_keys = ON, owner = the thread that opened each;
\* op, by, res, pre = the last call on the manager, its thread, its outcome
\* and the (cur, live) it began with
NoConnection == [cur |-> 0, made |-> 0, live |-> {}, fk |-> {}, owner |-> <<>>,
                 op |-> "none", by |-> "main", res |-> "ok",
                 pre |-> [cur |-> 0, live |-> {}]]

OpenedWithoutPragma(c, t) ==
    [c EXCEPT !.cur = c.made + 1, !.made = c.made + 1,
              !.live = c.live \cup {c.made + 1},
              !.owner = Append(c.owner, t)]

\* _initialize_connection on thread t: sqlite3.connect, then
\* PRAGMA foreign_keys = ON
Opened(c, t) ==
    [c EXCEPT !.cur = c.made + 1, !.made = c.made + 1,
              !.live = c.live \cup {c.made + 1},
              !.fk = c.fk \cup {c.made + 1},
              !.owner = Append(c.owner, t)]

\* KnowledgeGraphConnection after __init__ on the constructing thread:
\* __init__ sets _conn = None and then calls _initialize_connection
Constructed == [Opened(NoConnection, "main") EXCEPT !.op = "__init__"]

FacadeManagers == {"entity", "observation", "relation", "search", "maintenance"}

InitializedOnFirst(instance, c) ==
    [connection |-> instance,
     managers |-> [m \in FacadeManagers |-> [conn |-> 1, lock |-> 1]]]

\* KnowledgeGraph.__init__, and restore after the file is replaced: the
\* facade holds the instance-th KnowledgeGraphConnection, and each manager
\* holds what the factory read from it, conn=connection.get_connection() and
\* lock=connection.get_lock()
Initialized(instance, c) ==
    [connection |-> instance,
     managers |-> [m \in FacadeManagers |-> [conn |-> c.cur, lock |-> instance]]]

(***************************************************************************)
(* State                                                                   *)
(***************************************************************************)
VARIABLES
    db,         \* committed content of the storage file
    cache,      \* entries of the external cache, key -> serialized value
    rc,         \* the redis_client the graph was constructed with
    refdb,      \* storage of a twin graph constructed with redis_client=None
    nextEntity, nextObservation, nextRelation,  \* fresh-id counters
    last,       \* the call that returned last, if it committed a write
    work,       \* what the connection sees: db plus its open transaction
    lock,       \* holder of each lock
    th,         \* each thread's position inside a facade call
    retry,      \* the execute_with_retry call in progress
    conn,       \* the connection manager and the connections it opened
    kg,         \* the facade: its connection manager and what its managers hold
    files       \* the backup files written so far, in the order of their names

vars == <<db, cache, rc, refdb, nextEntity, nextObservation, nextRelation, last,
          work, lock, th, retry, conn, kg, files>>

(***************************************************************************)
(* Threads, managers and locks                                             *)
(***************************************************************************)
\* the thread that constructed the graph, and the other callers
Creator == "main"
Threads == {Creator} \cup {"w" \o ToString(n) : n \in 1..MaxWorkers}

Managers == {"entity", "observation", "relation", "maintenance"}

ManagerOf(op) ==
    CASE op \in {"create_entity", "update_entity", "delete_entity"} -> "entity"
      [] op \in {"add_observation", "delete_observation"} -> "observation"
      [] op \in {"create_relation", "delete_relation"} -> "relation"
      [] op = "clear" -> "maintenance"

OwnLockOf(manager) == manager

\* the lock a manager's write methods take: the factory hands every manager
\* connection.get_lock()
LockOf(manager) == "connection"

Locks == {"connection"} \cup Managers

\* sqlite3.connect(db_path) leaves check_same_thread at its default
CheckSameThread == TRUE

CanUseConnectionInAnyThread(t) == TRUE

\* conn.cursor(), conn.commit() and conn.rollback() raise ProgrammingError in
\* every other thread
CanUseConnection(t) == ~CheckSameThread \/ t = Creator

Idle == [pc |-> "idle", op |-> "none", args |-> <<>>, res |-> Ok(<<>>),
         stmts |-> <<>>, sets |-> <<>>, patterns |-> <<>>, pre |-> EmptyDb]

ReadOps == {"get_entity", "get_entity_by_name", "get_observations", "get_relations",
            "search_entities", "get_stats"}

\* the cache keys under which the reads of one operation about one entity are
\* stored (for get_entity_by_name: under the name the entity has in d)
KeysAbout(op, d, entity_id) ==
    CASE op = "get_entity" -> {get_cache_key("get_entity", <<entity_id>>)}
      [] op = "get_entity_by_name" ->
           {get_cache_key("get_entity_by_name", <<d.ents[i].name>>) :
               i \in {j \in DOMAIN d.ents : j = entity_id}}
      [] op = "get_observations" ->
           {get_cache_key("get_observations", <<entity_id, ToString(DefaultObsLimit)>>)}
      [] op = "get_relations" ->
           {get_cache_key("get_relations", <<entity_id, dir, Str(NONE)>>) :
               dir \in Directions}
      [] op = "search_entities" ->
           {get_cache_key("search_entities",
                <<q, Str(NONE), ToString(DefaultSearchLimit),
                  StrFloat(DefaultMinSimilarity)>>) : q \in Queries}
      [] op = "get_stats" -> {StatsKey}

\* the read operations that had a result about the entity in the cache
WarmReads(c, d, entity_id) ==
    {op \in ReadOps : KeysAbout(op, d, entity_id) \cap DOMAIN c # {}}

\* before = the name the written entity had, warm = the reads about it that
\* were cached, both when the call began
NoCall == [op |-> "none", args |-> <<>>, res |-> Ok(<<>>), before |-> NONE, warm |-> {}]

Init ==
    /\ db = EmptyDb
    /\ cache = <<>>
    /\ rc \in {NoClient, Client({}, MaxCached)}
    /\ refdb = EmptyDb
    /\ nextEntity = 1
    /\ nextObservation = 1
    /\ nextRelation = 1
    /\ last = NoCall
    /\ work = EmptyDb
    /\ lock = [l \in Locks |-> NONE]
    /\ th = [t \in Threads |-> Idle]
    /\ retry = NoRetry
    /\ conn = Constructed
    /\ kg = Initialized(1, Constructed)
    /\ files = <<>>

(***************************************************************************)
(* Facade operations, each one whole call on the constructing thread.      *)
(* The twin executes the same call without a cache.                        *)
(***************************************************************************)
Write(op, args, plan, refplan) ==
    /\ db' = ExecuteAll(db, plan.stmts)
    /\ work' = db'
    /\ cache' = AfterCommit(rc, plan)
    /\ refdb' = ExecuteAll(refdb, refplan.stmts)
    /\ last' = IF plan.stmts = <<>> THEN NoCall
               ELSE [op |-> op, args |-> args, res |-> ApiResult(plan.res),
                     before |-> IF args # <<>> /\ args[1] \in DOMAIN db.ents
                                THEN db.ents[args[1]].name ELSE NONE,
                     warm |-> IF args # <<>> /\ args[1] \in EntityIds /\ rc.on
                              THEN WarmReads(cache, db, args[1]) ELSE {}]
    /\ UNCHANGED <<kg, files, retry, conn, rc, lock, th>>

Read(out) ==
    /\ cache' = out.cache
    /\ last' = NoCall
    /\ UNCHANGED <<kg, files, retry, conn, rc, refdb, nextEntity, nextObservation, nextRelation, lock, th>>

CreateEntity(name, entity_type, properties) ==
    LET plan == create_entity(db, cache, rc, name, entity_type, properties,
                              EntityId(nextEntity))
        refplan == create_entity(refdb, <<>>, NoClient, name, entity_type, properties,
                                 EntityId(nextEntity))
    IN /\ plan.stmts = <<>> \/ nextEntity <= MaxEntities
       /\ Write("create_entity", <<name, entity_type>>, plan, refplan)
       /\ nextEntity' = IF plan.stmts = <<>> THEN nextEntity ELSE nextEntity + 1
       /\ UNCHANGED <<nextObservation, nextRelation>>

UpdateEntity(entity_id, name, entity_type, properties) ==
    /\ Write("update_entity", <<entity_id, name, entity_type>>,
             update_entity(db, cache, rc, entity_id, name, entity_type, properties),
             update_entity(refdb, <<>>, NoClient, entity_id, name, entity_type, properties))
    /\ UNCHANGED <<nextEntity, nextObservation, nextRelation>>

DeleteEntity(entity_id) ==
    /\ Write("delete_entity", <<entity_id>>,
             delete_entity(db, cache, rc, entity_id),
             delete_entity(refdb, <<>>, NoClient, entity_id))
    /\ UNCHANGED <<nextEntity, nextObservation, nextRelation>>

AddObservation(entity_id, observation) ==
    LET plan == add_observation(db, cache, rc, entity_id, observation,
                                ObservationId(nextObservation))
        refplan == add_observation(refdb, <<>>, NoClient, entity_id, observation,
                                   ObservationId(nextObservation))
    IN /\ plan.stmts = <<>> \/ nextObservation <= MaxObservations
       /\ Write("add_observation", <<entity_id, observation>>, plan, refplan)
       /\ nextObservation' = IF plan.stmts = <<>> THEN nextObservation
                             ELSE nextObservation + 1
       /\ UNCHANGED <<nextEntity, nextRelation>>

DeleteObservation(observation_id) ==
    /\ Write("delete_observation", <<observation_id>>,
             delete_observation(db, cache, rc, observation_id),
             delete_observation(refdb, <<>>, NoClient, observation_id))
    /\ UNCHANGED <<nextEntity, nextObservation, nextRelation>>

\* create_relation while fewer than max relations were ever stored
CreateRelationWithin(max, from_entity_id, to_entity_id, relation_type, confidence) ==
    LET plan == create_relation(db, cache, rc, from_entity_id, to_entity_id,
                                relation_type, confidence, RelationId(nextRelation))
        refplan == create_relation(refdb, <<>>, NoClient, from_entity_id, to_entity_id,
                                   relation_type, confidence, RelationId(nextRelation))
    IN /\ plan.stmts = <<>> \/ nextRelation <= max
       /\ Write("create_relation", <<from_entity_id, to_entity_id, relation_type>>,
                plan, refplan)
       /\ nextRelation' = IF plan.stmts = <<>> THEN nextRelation ELSE nextRelation + 1
       /\ UNCHANGED <<nextEntity, nextObservation>>

CreateRelation(from_entity_id, to_entity_id, relation_type, confidence) ==
    CreateRelationWithin(MaxRelations, from_entity_id, to_entity_id, relation_type,
                         confidence)

DeleteRelation(relation_id) ==
    /\ Write("delete_relation", <<relation_id>>,
             delete_relation(db, cache, rc, relation_id),
             delete_relation(refdb, <<>>, NoClient, relation_id))
    /\ UNCHANGED <<nextEntity, nextObservation, nextRelation>>

Clear ==
    /\ Write("clear", <<>>, clear_knowledge_graph(db, cache, rc),
             clear_knowledge_graph(refdb, <<>>, NoClient))
    /\ UNCHANGED <<nextEntity, nextObservation, nextRelation>>

GetEntity(entity_id) ==
    /\ Read(get_entity(db, cache, rc, entity_id))
    /\ UNCHANGED <<db, work>>

GetEntityByName(name) ==
    /\ Read(get_entity_by_name(db, cache, rc, name))
    /\ UNCHANGED <<db, work>>

GetObservations(entity_id, limit) ==
    /\ Read(get_observations(db, cache, rc, entity_id, limit))
    /\ UNCHANGED <<db, work>>

GetRelations(entity_id, direction, relation_type) ==
    /\ Read(get_relations(db, cache, rc, entity_id, direction, relation_type))
    /\ UNCHANGED <<db, work>>

SearchEntities(query, entity_type, limit, min_similarity) ==
    /\ Read(search_entities(db, cache, rc, query, entity_type, limit, min_similarity))
    /\ UNCHANGED <<db, work>>

GetStats ==
    /\ Read(get_knowledge_graph_stats(db, cache, rc))
    /\ UNCHANGED <<db, work>>

\* an entry reaches its TTL (set(..., ex=cache_ttl))
CacheExpire ==
    /\ \E k \in DOMAIN cache : cache' = CacheDelete(cache, {k})
    /\ last' = NoCall
    /\ UNCHANGED <<kg, files, retry, conn, db, rc, refdb, nextEntity, nextObservation, nextRelation, work, lock, th>>

Next ==
    \/ \E n \in Names, t \in Types, p \in PropVals : CreateEntity(n, t, p)
    \/ \E i \in EntityIds, n \in Names \cup {NONE}, t \in Types \cup {NONE} :
          UpdateEntity(i, n, t, NONE)
    \/ \E i \in EntityIds : DeleteEntity(i)
    \/ \E i \in EntityIds, o \in ObsTexts : AddObservation(i, o)
    \/ \E o \in ObservationIds : DeleteObservation(o)
    \/ \E i \in EntityIds, j \in EntityIds, t \in RelTypes, cf \in Confidences :
          CreateRelation(i, j, t, cf)
    \/ \E r \in RelationIds : DeleteRelation(r)
    \/ Clear
    \/ \E i \in EntityIds : GetEntity(i)
    \/ \E n \in Names : GetEntityByName(n)
    \/ \E i \in EntityIds : GetObservations(i, DefaultObsLimit)
    \/ \E i \in EntityIds, dir \in Directions : GetRelations(i, dir, NONE)
    \/ \E q \in Queries :
          SearchEntities(q, NONE, DefaultSearchLimit, DefaultMinSimilarity)
    \/ GetStats
    \/ CacheExpire

Spec == Init /\ [][Next]_vars

(***************************************************************************)
(* The entity operations alone, on a cache that keeps every entity read.   *)
(***************************************************************************)
InitEntities ==
    /\ db = EmptyDb
    /\ cache = <<>>
    /\ rc = Client({}, MaxCachedEntityReads)
    /\ refdb = EmptyDb
    /\ nextEntity = 1
    /\ nextObservation = 1
    /\ nextRelation = 1
    /\ last = NoCall
    /\ work = EmptyDb
    /\ lock = [l \in Locks |-> NONE]
    /\ th = [t \in Threads |-> Idle]
    /\ retry = NoRetry
    /\ conn = Constructed
    /\ kg = Initialized(1, Constructed)
    /\ files = <<>>

NextEntities ==
    \/ \E n \in Names, t \in Types, p \in PropVals : CreateEntity(n, t, p)
    \/ \E i \in EntityIds, n \in Names \cup {NONE}, t \in Types \cup {NONE} :
          UpdateEntity(i, n, t, NONE)
    \/ \E i \in EntityIds : DeleteEntity(i)
    \/ \E i \in EntityIds, o \in ObsTexts : AddObservation(i, o)
    \/ \E i \in EntityIds : GetEntity(i)
    \/ \E n \in Names : GetEntityByName(n)
    \/ \E q \in Queries :
          SearchEntities(q, NONE, DefaultSearchLimit, DefaultMinSimilarity)
    \/ CacheExpire

SpecEntities == InitEntities /\ [][NextEntities]_vars

(***************************************************************************)
(* The read calls a caller can make in a state, and what each returns      *)
(***************************************************************************)
ReadCalls ==
    {[op |-> "get_entity", args |-> <<i>>] : i \in EntityIds}
    \cup {[op |-> "get_entity_by_name", args |-> <<n>>] : n \in Names}
    \cup {[op |-> "get_observations", args |-> <<i>>] : i \in EntityIds}
    \cup {[op |-> "get_relations", args |-> <<i, dir>>] : i \in EntityIds, dir \in Directions}
    \cup {[op |-> "search_entities", args |-> <<q>>] : q \in Queries}
    \cup {[op |-> "get_stats", args |-> <<>>]}

\* the cache key the call reads and fills
ReadKey(call) ==
    CASE call.op = "get_entity" -> get_cache_key("get_entity", call.args)
      [] call.op = "get_entity_by_name" -> get_cache_key("get_entity_by_name", call.args)
      [] call.op = "get_observations" ->
           get_cache_key("get_observations", <<call.args[1], ToString(DefaultObsLimit)>>)
      [] call.op = "get_relations" ->
           get_cache_key("get_relations", <<call.args[1], call.args[2], Str(NONE)>>)
      [] call.op = "search_entities" ->
           get_cache_key("search_entities",
               <<call.args[1], Str(NONE), ToString(DefaultSearchLimit),
                 StrFloat(DefaultMinSimilarity)>>)
      [] call.op = "get_stats" -> StatsKey

Perform(call, d, c, client) ==
    CASE call.op = "get_entity" -> get_entity(d, c, client, call.args[1])
      [] call.op = "get_entity_by_name" -> get_entity_by_name(d, c, client, call.args[1])
      [] call.op = "get_observations" ->
           get_observations(d, c, client, call.args[1], DefaultObsLimit)
      [] call.op = "get_relations" ->
           get_relations(d, c, client, call.args[1], call.args[2], NONE)
      [] call.op = "search_entities" ->
           search_entities(d, c, client, call.args[1], NONE, DefaultSearchLimit,
                           DefaultMinSimilarity)
      [] call.op = "get_stats" -> get_knowledge_graph_stats(d, c, client)

\* what the facade's caller gets from the call
Returned(call, d, c, client) == ApiResult(Perform(call, d, c, client).res)

\* what the call returns when the storage is consulted
StorageResult(call, d) == Returned(call, d, <<>>, NoClient)

EntityWrites == {"create_entity", "update_entity", "delete_entity"}
ObservationWrites == {"add_observation", "delete_observation"}
RelationWrites == {"create_relation", "delete_relation"}

(***************************************************************************)
(* Claims about the cache of one graph used from its constructing thread   *)
(***************************************************************************)
\* C1: when a mutating operation (entity, observation or relation write) has
\* returned on a cache-enabled graph, no entry that was in the cache before
\* the operation is still there for a read whose storage result the
\* operation changed.
C1_NoStaleEntryAfterWrite ==
    [][(rc.on /\ last'.op \in EntityWrites \cup ObservationWrites \cup RelationWrites)
         => \A call \in ReadCalls :
               StorageResult(call, db') # StorageResult(call, db)
                 => ~(/\ ReadKey(call) \in DOMAIN cache
                      /\ ReadKey(call) \in DOMAIN cache'
                      /\ cache'[ReadKey(call)] = cache[ReadKey(call)])]_vars

\* C6: after update_entity(id, ...) returned true on a cache-enabled graph,
\* get_entity(id), get_entity_by_name of every name and search_entities return
\* what the storage holds, and get_entity(id) shows the fields the update set.
C6_UpdateVisibleThroughCache ==
    (rc.on /\ last.op = "update_entity" /\ last.res = Ok(<<TRUE>>))
      => LET id == last.args[1]
             got == Returned([op |-> "get_entity", args |-> <<id>>], db, cache, rc)
         IN
         /\ got = StorageResult([op |-> "get_entity", args |-> <<id>>], db)
         /\ got.status = "ok" /\ Len(got.value) = 1
         /\ last.args[2] # NONE => got.value[1].name = last.args[2]
         /\ last.args[3] # NONE => got.value[1].entity_type = last.args[3]
         /\ \A call \in ReadCalls :
              call.op \in {"get_entity_by_name", "search_entities"}
                => Returned(call, db, cache, rc) = StorageResult(call, db)

\* a rename that committed while get_entity(id), get_entity_by_name(old name)
\* and a search were all cached
C6_Witness ==
    /\ rc.on /\ last.op = "update_entity" /\ last.res = Ok(<<TRUE>>)
    /\ {"get_entity", "get_entity_by_name", "search_entities"} \subseteq last.warm
    /\ last.args[2] \notin {NONE, last.before}
    /\ Returned([op |-> "get_entity_by_name", args |-> <<last.before>>],
                db, cache, rc) = Ok(<<>>)
    /\ Returned([op |-> "get_entity", args |-> <<last.args[1]>>],
                db, cache, rc).value[1].name = last.args[2]

\* C7: after delete_entity(E) returned true, get_entity(E) returns nothing, no
\* get_observations call returns an observation of E, and no get_relations
\* call returns a relation with E as an endpoint.
C7_DeletedEntityUnreachable ==
    (last.op = "delete_entity" /\ last.res = Ok(<<TRUE>>))
      => LET E == last.args[1] IN
         /\ Returned([op |-> "get_entity", args |-> <<E>>], db, cache, rc) = Ok(<<>>)
         /\ \A call \in ReadCalls :
              LET got == Returned(call, db, cache, rc) IN
              /\ (call.op = "get_observations" /\ got.status = "ok")
                   => \A n \in 1..Len(got.value) : got.value[n].entity_id # E
              /\ (call.op = "get_relations" /\ got.status = "ok")
                   => \A n \in 1..Len(got.value) :
                        /\ got.value[n].from_entity_id # E
                        /\ got.value[n].to_entity_id # E

\* C10: a read whose key is in the cache makes no execute_with_retry call.
C10_HitExecutesNothing ==
    \A call \in ReadCalls :
        (rc.on /\ ReadKey(call) \in DOMAIN cache)
          => Perform(call, db, cache, rc).stmts = 0

\* a read returns the cached result without a statement, here while the
\* storage holds another result
C10_Witness ==
    \E call \in ReadCalls :
        /\ rc.on /\ ReadKey(call) \in DOMAIN cache
        /\ Perform(call, db, cache, rc).stmts = 0
        /\ Returned(call, db, cache, rc) # StorageResult(call, db)

\* C18: in every reachable state every stored observation's entity_id and
\* every stored relation's from_entity_id and to_entity_id is the id of an
\* entity in storage.
C18_NoOrphans ==
    /\ \A o \in DOMAIN db.obs : db.obs[o].entity_id \in DOMAIN db.ents
    /\ \A r \in DOMAIN db.rels :
          /\ db.rels[r].from_entity_id \in DOMAIN db.ents
          /\ db.rels[r].to_entity_id \in DOMAIN db.ents

\* an entity that had observations was deleted (the cache still holds them)
\* and its observations went with it, while another entity stays
C18_Witness ==
    /\ last.op = "delete_entity" /\ last.res = Ok(<<TRUE>>)
    /\ last.args[1] \notin DOMAIN db.ents
    /\ Returned([op |-> "get_observations", args |-> <<last.args[1]>>],
                db, cache, rc).value # <<>>
    /\ db.ents # <<>>
    /\ \A o \in DOMAIN db.obs : db.obs[o].entity_id # last.args[1]

\* C20: create_relation with a confidence below 0.0 or above 1.0 raises
\* ValueError in every state, whatever its other arguments, without a
\* statement (no row, no updated_at) and with the cache as it was; the state
\* it leaves is the state it found, so this holds for every repetition.
C20_BadConfidenceRejectedWithoutEffect ==
    \A i \in EntityIds, j \in EntityIds, t \in RelTypes, cf \in Confidences :
        (cf < 0 \/ cf > 100)
          => LET plan == create_relation(db, cache, rc, i, j, t, cf,
                                         RelationId(nextRelation))
             IN /\ plan.res = Err("ValueError")
                /\ ApiResult(plan.res).status # "ok"
                /\ plan.stmts = <<>> /\ ExecuteAll(db, plan.stmts) = db
                /\ plan.pre = cache /\ AfterCommit(rc, plan) = cache

\* both endpoints are stored, no relation is, the relations of one are
\* cached: confidence 0.9 would store a relation and invalidate the entry,
\* confidence 1.1 raises
C20_Witness ==
    \E i \in DOMAIN db.ents, j \in DOMAIN db.ents :
        /\ i # j /\ db.rels = <<>>
        /\ rc.on /\ CacheKeys(cache, "kg:get_relations*") # {}
        /\ create_relation(db, cache, rc, i, j, "calls", 90,
                           RelationId(nextRelation)).stmts # <<>>
        /\ create_relation(db, cache, rc, i, j, "calls", 110,
                           RelationId(nextRelation)).res = Err("ValueError")

\* C22: update_entity, delete_entity, delete_observation and delete_relation
\* with an id that is not in storage return false, execute no statement and
\* leave the cache as it is.
C22_MissingIdReturnsFalse ==
    LET unchanged(plan) == /\ plan.res = Ok(<<FALSE>>)
                           /\ ApiResult(plan.res) = Ok(<<FALSE>>)
                           /\ ExecuteAll(db, plan.stmts) = db
                           /\ AfterCommit(rc, plan) = cache
    IN
    /\ \A i \in EntityIds \ DOMAIN db.ents :
          /\ \A n \in Names \cup {NONE} :
                unchanged(update_entity(db, cache, rc, i, n, NONE, NONE))
          /\ unchanged(delete_entity(db, cache, rc, i))
    /\ \A o \in ObservationIds \ DOMAIN db.obs :
          unchanged(delete_observation(db, cache, rc, o))
    /\ \A r \in RelationIds \ DOMAIN db.rels :
          unchanged(delete_relation(db, cache, rc, r))

\* the read calls about one entity id
ReadsOf(entity_id) ==
    {call \in ReadCalls : /\ call.op \in {"get_entity", "get_observations", "get_relations"}
                          /\ call.args[1] = entity_id}

\* C23 (as claimed): get_entity, get_observations and get_relations with an
\* id that does not exist return an empty result and do not raise.
C23_MissingIdReadsEmpty ==
    \A i \in EntityIds \ DOMAIN db.ents : \A call \in ReadsOf(i) :
        Returned(call, db, cache, rc) = Ok(<<>>)

\* C23 (amended): answered from storage for an id that does not exist,
\* get_entity returns nothing and does not raise, get_observations and
\* get_relations raise EntityNotFoundError; none of them writes to the cache.
C23_MissingIdReadsFromStorage ==
    \A i \in EntityIds \ DOMAIN db.ents : \A call \in ReadsOf(i) :
        LET out == Perform(call, db, cache, rc) IN
        out.stmts > 0
          => /\ out.cache = cache
             /\ Returned(call, db, cache, rc) =
                  IF call.op = "get_entity" THEN Ok(<<>>) ELSE Err("EntityNotFoundError")

\* an entity was stored and deleted; on the cache-enabled graph its three
\* reads go to storage, and get_observations raises
C23_Witness ==
    \E i \in EntityIds \ DOMAIN db.ents :
        /\ rc.on /\ last.op = "delete_entity" /\ last.args = <<i>>
        /\ \A call \in ReadsOf(i) : Perform(call, db, cache, rc).stmts > 0
        /\ Returned([op |-> "get_observations", args |-> <<i>>], db, cache, rc)
             = Err("EntityNotFoundError")

\* C24: add_observation on an entity that does not exist, and create_relation
\* (with a valid confidence) whose from or to entity does not exist, raise
\* EntityNotFoundError, execute no statement and leave the cache as it is.
C24_MissingEntityRejected ==
    LET rejected(plan) == /\ ApiResult(plan.res) = Err("EntityNotFoundError")
                          /\ plan.stmts = <<>> /\ ExecuteAll(db, plan.stmts) = db
                          /\ AfterCommit(rc, plan) = cache
    IN
    \A i \in EntityIds \ DOMAIN db.ents :
        /\ \A o \in ObsTexts :
              rejected(add_observation(db, cache, rc, i, o, ObservationId(nextObservation)))
        /\ \A j \in EntityIds, t \in RelTypes :
              /\ rejected(create_relation(db, cache, rc, i, j, t, 90,
                                          RelationId(nextRelation)))
              /\ rejected(create_relation(db, cache, rc, j, i, t, 90,
                                          RelationId(nextRelation)))

\* one entity is stored with its reads cached, the other id is not stored:
\* an observation for the stored one would be stored, one for the other and
\* a relation to the other are rejected
C24_Witness ==
    \E i \in EntityIds \ DOMAIN db.ents, j \in DOMAIN db.ents :
        /\ rc.on /\ cache # <<>>
        /\ add_observation(db, cache, rc, j, "o", ObservationId(nextObservation)).stmts # <<>>
        /\ add_observation(db, cache, rc, i, "o", ObservationId(nextObservation)).res
             = Err("EntityNotFoundError")
        /\ create_relation(db, cache, rc, j, i, "calls", 90, RelationId(nextRelation)).res
             = Err("EntityNotFoundError")

\* C25: a call with an empty required field or an out-of-range confidence
\* ends at the graph's public interface with a ValueError, and executes no
\* storage statement.
C25_ValidationErrorAtInterface ==
    LET invalid(plan) == ApiResult(plan.res).status = "ValueError" /\ plan.stmts = <<>>
        invalidRead(out) == ApiResult(out.res).status = "ValueError" /\ out.stmts = 0
    IN
    /\ \A i \in EntityIds, j \in EntityIds, t \in RelTypes, cf \in Confidences :
          /\ (cf < 0 \/ cf > 100)
               => invalid(create_relation(db, cache, rc, i, j, t, cf,
                                          RelationId(nextRelation)))
          /\ invalid(create_relation(db, cache, rc, i, j, "", 90, RelationId(nextRelation)))
          /\ invalid(create_relation(db, cache, rc, "", j, t, 90, RelationId(nextRelation)))
          /\ invalid(create_relation(db, cache, rc, i, "", t, 90, RelationId(nextRelation)))
    /\ \A n \in Names, t \in Types :
          /\ invalid(create_entity(db, cache, rc, "", t, "p", EntityId(nextEntity)))
          /\ invalid(create_entity(db, cache, rc, n, "", "p", EntityId(nextEntity)))
          /\ invalid(update_entity(db, cache, rc, "", n, NONE, NONE))
    /\ invalid(delete_entity(db, cache, rc, ""))
    /\ invalid(delete_observation(db, cache, rc, ""))
    /\ invalid(delete_relation(db, cache, rc, ""))
    /\ \A i \in EntityIds, o \in ObsTexts :
          /\ invalid(add_observation(db, cache, rc, "", o, ObservationId(nextObservation)))
          /\ invalid(add_observation(db, cache, rc, i, "", ObservationId(nextObservation)))
    /\ invalidRead(get_entity(db, cache, rc, ""))
    /\ invalidRead(get_entity_by_name(db, cache, rc, ""))
    /\ invalidRead(get_observations(db, cache, rc, "", DefaultObsLimit))

\* C26: for every valid entity input, get_entity(create_entity(e)) returns an
\* entity under the newly assigned id whose name, type and properties are
\* those given (the properties without any added key), from the cache entry
\* written at creation as well as from storage.
C26_GetAfterCreateEqualsInput ==
    \A n \in Names, t \in Types, p \in PropVals :
        LET plan == create_entity(db, cache, rc, n, t, p, EntityId(nextEntity))
        IN plan.res.status = "ok" /\ Len(plan.res.value) = 1
           /\ LET id == plan.res.value[1]
                  out == get_entity(ExecuteAll(db, plan.stmts), AfterCommit(rc, plan),
                                    rc, id)
              IN /\ id \notin DOMAIN db.ents
                 /\ out.res.status = "ok" /\ Len(out.res.value) = 1
                 /\ out.res.value[1] =
                       [id |-> id, name |-> n, entity_type |-> t, properties |-> p,
                        has_observations |-> FALSE, observations |-> <<>>]

\* C26, as the code has it: for every valid entity input whose name and type
\* are not stored together yet, get_entity(create_entity(e)) returns an entity
\* under the newly assigned id whose name and type are those given; its
\* properties are those given when the cache entry written at creation
\* answers, and those given plus the key "observations" holding the empty
\* list when storage answers.
C26_GetAfterCreate ==
    \A n \in Names, t \in Types, p \in PropVals :
        (\A i \in DOMAIN db.ents : ~(db.ents[i].name = n /\ db.ents[i].entity_type = t))
        => LET plan == create_entity(db, cache, rc, n, t, p, EntityId(nextEntity))
           IN plan.res.status = "ok" /\ Len(plan.res.value) = 1
              /\ LET id == plan.res.value[1]
                     out == get_entity(ExecuteAll(db, plan.stmts), AfterCommit(rc, plan),
                                       rc, id)
                 IN /\ id \notin DOMAIN db.ents
                    /\ out.res.status = "ok" /\ Len(out.res.value) = 1
                    /\ out.res.value[1] =
                          [id |-> id, name |-> n, entity_type |-> t, properties |-> p,
                           has_observations |-> out.stmts > 0, observations |-> <<>>]

\* an entity was just created and its get_entity is answered by the cache
\* entry written at creation, with the properties given
C26_Witness ==
    \E i \in DOMAIN db.ents :
        /\ last.op = "create_entity" /\ last.res = Ok(<<i>>)
        /\ CacheHit(rc, cache, get_cache_key("get_entity", <<i>>))
        /\ LET out == get_entity(db, cache, rc, i)
           IN out.stmts = 0 /\ out.res.value[1].properties = db.ents[i].properties
                /\ ~out.res.value[1].has_observations

WriteResults(d, c, client) ==
    [create_entity |-> [n \in Names, t \in Types |->
         ApiResult(create_entity(d, c, client, n, t, "p", EntityId(nextEntity)).res)],
     update_entity |-> [i \in EntityIds, n \in Names \cup {NONE} |->
         ApiResult(update_entity(d, c, client, i, n, NONE, NONE).res)],
     delete_entity |-> [i \in EntityIds |->
         ApiResult(delete_entity(d, c, client, i).res)],
     add_observation |-> [i \in EntityIds, o \in ObsTexts |->
         ApiResult(add_observation(d, c, client, i, o,
                                   ObservationId(nextObservation)).res)],
     delete_observation |-> [o \in ObservationIds |->
         ApiResult(delete_observation(d, c, client, o).res)],
     create_relation |-> [i \in EntityIds, j \in EntityIds, t \in RelTypes |->
         ApiResult(create_relation(d, c, client, i, j, t, 90,
                                   RelationId(nextRelation)).res)],
     delete_relation |-> [r \in RelationIds |->
         ApiResult(delete_relation(d, c, client, r).res)],
     clear |-> ApiResult(clear_knowledge_graph(d, c, client).res)]

\* C8: at every position of every sequence of operations, each operation
\* returns on the graph with a working cache what it returns on the graph
\* with no cache.
C8_SameResultAsUncached ==
    /\ \A call \in ReadCalls :
          Returned(call, db, cache, rc) = Returned(call, refdb, <<>>, NoClient)
    /\ WriteResults(db, cache, rc) = WriteResults(refdb, <<>>, NoClient)

(***************************************************************************)
(* Entities of two types: creating, renaming, retyping and deleting        *)
(***************************************************************************)
TwoTypes == {"f", "g"}

NextDedup ==
    \/ \E n \in Names, t \in TwoTypes, p \in PropVals : CreateEntity(n, t, p)
    \/ \E i \in EntityIds, n \in Names \cup {NONE}, t \in TwoTypes \cup {NONE} :
          UpdateEntity(i, n, t, NONE)
    \/ \E i \in EntityIds : DeleteEntity(i)
    \/ \E i \in EntityIds : GetEntity(i)
    \/ \E n \in Names : GetEntityByName(n)

SpecDedup == InitEntities /\ [][NextDedup]_vars

\* C19: create_entity with a (name, type) pair that is already stored returns
\* the id of a stored entity of that name and type and stores nothing;
\* create_entity with a pair that is not stored, also when the name is stored
\* with another type, stores one new entity under an id no stored entity has
\* and leaves the others as they are.
C19_CreateDeduplicates ==
    \A n \in Names, t \in TwoTypes :
        LET plan == create_entity(db, cache, rc, n, t, "p", EntityId(nextEntity))
            after == ExecuteAll(db, plan.stmts)
            same == {i \in DOMAIN db.ents :
                       db.ents[i].name = n /\ db.ents[i].entity_type = t}
        IN
        /\ plan.res.status = "ok" /\ Len(plan.res.value) = 1
        /\ IF same # {}
           THEN plan.res.value[1] \in same /\ after = db
           ELSE LET id == plan.res.value[1] IN
                /\ id \notin DOMAIN db.ents
                /\ DOMAIN after.ents = DOMAIN db.ents \cup {id}
                /\ after.ents[id].name = n /\ after.ents[id].entity_type = t
                /\ \A i \in DOMAIN db.ents : after.ents[i] = db.ents[i]
                /\ after.obs = db.obs /\ after.rels = db.rels

\* one name is stored with both types under two ids, by two create_entity
\* calls, and a third call with either pair returns the id it has
C19_Witness ==
    \E i \in DOMAIN db.ents, j \in DOMAIN db.ents :
        /\ i # j /\ db.ents[i].name = db.ents[j].name
        /\ db.ents[i].entity_type = "f" /\ db.ents[j].entity_type = "g"
        /\ last.op = "create_entity" /\ last.res = Ok(<<j>>)
        /\ create_entity(db, cache, rc, db.ents[i].name, "f", "p",
                         EntityId(nextEntity)).res = Ok(<<i>>)

(***************************************************************************)
(* Relations between two entities, self-references among them              *)
(***************************************************************************)
NextRelations ==
    \/ \E n \in Names, t \in Types, p \in PropVals : CreateEntity(n, t, p)
    \/ \E i \in EntityIds : DeleteEntity(i)
    \/ \E i \in EntityIds, j \in EntityIds, t \in RelTypes :
          CreateRelationWithin(MaxRelationsOfTwo, i, j, t, 90)
    \/ \E n \in 1..MaxRelationsOfTwo : DeleteRelation(RelationId(n))
    \/ \E i \in EntityIds, dir \in Directions : GetRelations(i, dir, NONE)

SpecRelations == InitEntities /\ [][NextRelations]_vars

\* C21: create_relation with a stored (from, to, relation_type) triple returns
\* the id of the stored relation and stores nothing, so no two stored
\* relations have the same triple; with a triple that is not stored, also
\* one whose from and to are the same entity, it stores one new relation.
C21_RelationTripleDeduplicated ==
    /\ \A r \in DOMAIN db.rels, q \in DOMAIN db.rels :
          (/\ db.rels[r].from_entity_id = db.rels[q].from_entity_id
           /\ db.rels[r].to_entity_id = db.rels[q].to_entity_id
           /\ db.rels[r].relation_type = db.rels[q].relation_type) => r = q
    /\ \A i \in DOMAIN db.ents, j \in DOMAIN db.ents, t \in RelTypes :
          LET plan == create_relation(db, cache, rc, i, j, t, 90, RelationId(nextRelation))
              after == ExecuteAll(db, plan.stmts)
              same == {r \in DOMAIN db.rels : /\ db.rels[r].from_entity_id = i
                                             /\ db.rels[r].to_entity_id = j
                                             /\ db.rels[r].relation_type = t}
          IN
          /\ plan.res.status = "ok" /\ Len(plan.res.value) = 1
          /\ IF same # {}
             THEN plan.res.value[1] \in same /\ after = db
             ELSE LET id == plan.res.value[1] IN
                  /\ id \notin DOMAIN db.rels
                  /\ DOMAIN after.rels = DOMAIN db.rels \cup {id}
                  /\ after.rels[id].from_entity_id = i /\ after.rels[id].to_entity_id = j
                  /\ after.rels[id].relation_type = t
                  /\ \A r \in DOMAIN db.rels : after.rels[r] = db.rels[r]

\* a relation from an entity to itself and one to the other entity are
\* stored, and creating the self-reference again returns its id
C21_Witness ==
    \E r \in DOMAIN db.rels, q \in DOMAIN db.rels :
        /\ db.rels[r].from_entity_id = db.rels[r].to_entity_id
        /\ db.rels[q].from_entity_id = db.rels[r].from_entity_id
        /\ db.rels[q].to_entity_id # db.rels[r].to_entity_id
        /\ create_relation(db, cache, rc, db.rels[r].from_entity_id,
                           db.rels[r].from_entity_id, db.rels[r].relation_type, 90,
                           RelationId(nextRelation)).res = Ok(<<r>>)

(***************************************************************************)
(* Calls from several threads, one step of one thread at a time.  A write  *)
(* goes through its manager: it waits for the manager's lock, runs the     *)
(* operation (checks, statements, commit, cache update) and releases the   *)
(* lock on the way out.  A read takes no lock.                             *)
(***************************************************************************)
WriteCalls ==
    {[op |-> "create_entity", args |-> <<n, t>>] : n \in Names, t \in Types}
    \cup {[op |-> "update_entity", args |-> <<i, n>>] : i \in EntityIds, n \in Names}
    \cup {[op |-> "delete_entity", args |-> <<i>>] : i \in EntityIds}
    \cup {[op |-> "add_observation", args |-> <<i, o>>] : i \in EntityIds, o \in ObsTexts}
    \cup {[op |-> "delete_observation", args |-> <<o>>] : o \in ObservationIds}
    \cup {[op |-> "create_relation", args |-> <<i, j, t>>] :
             i \in EntityIds, j \in EntityIds, t \in RelTypes}
    \cup {[op |-> "delete_relation", args |-> <<r>>] : r \in RelationIds}
    \cup {[op |-> "clear", args |-> <<>>]}

\* the operation function of a write call, on the connection's view d
PlanOf(call, d, c, client) ==
    CASE call.op = "create_entity" ->
           create_entity(d, c, client, call.args[1], call.args[2], "p",
                         EntityId(nextEntity))
      [] call.op = "update_entity" ->
           update_entity(d, c, client, call.args[1], call.args[2], NONE, NONE)
      [] call.op = "delete_entity" -> delete_entity(d, c, client, call.args[1])
      [] call.op = "add_observation" ->
           add_observation(d, c, client, call.args[1], call.args[2],
                           ObservationId(nextObservation))
      [] call.op = "delete_observation" ->
           delete_observation(d, c, client, call.args[1])
      [] call.op = "create_relation" ->
           create_relation(d, c, client, call.args[1], call.args[2], call.args[3], 90,
                           RelationId(nextRelation))
      [] call.op = "delete_relation" -> delete_relation(d, c, client, call.args[1])
      [] call.op = "clear" -> clear_knowledge_graph(d, c, client)

\* a read call issued by thread t: a hit needs no connection, a miss does
PerformOn(t, call, d, c, client) ==
    IF CanUseConnection(t) \/ CacheHit(client, c, ReadKey(call))
    THEN Perform(call, d, c, client)
    ELSE Outcome(Err("ProgrammingError"), c, 0)

InWrite(t) == th[t].pc \in {"entered", "committed", "leaving", "raised"}
InTransaction(t) == th[t].pc = "entered" /\ work # db

\* the thread calls a write method of the facade and reaches "with self._lock"
Call(t, call) ==
    /\ th[t].pc \in {"idle", "done"}
    /\ call.op = "create_entity" => nextEntity <= MaxEntities
    /\ call.op = "add_observation" => nextObservation <= MaxObservations
    /\ call.op = "create_relation" => nextRelation <= MaxRelations
    /\ th' = [th EXCEPT ![t] = [Idle EXCEPT !.pc = "waiting", !.op = call.op,
                                            !.args = call.args]]
    /\ UNCHANGED <<kg, files, retry, conn, db, cache, rc, refdb, nextEntity, nextObservation, nextRelation,
                   last, work, lock>>

\* it takes the lock and runs the operation up to its first write statement
Enter(t) ==
    LET me == th[t]
        l == LockOf(ManagerOf(me.op))
        plan == PlanOf([op |-> me.op, args |-> me.args], work, cache, rc)
    IN
    /\ me.pc = "waiting"
    /\ lock[l] \in {NONE, t}
    /\ lock' = [lock EXCEPT ![l] = t]
    /\ IF plan.res.status = "ValueError"
       THEN /\ th' = [th EXCEPT ![t].pc = "leaving", ![t].res = plan.res, ![t].pre = db]
            /\ UNCHANGED <<cache, nextEntity, nextObservation, nextRelation>>
       ELSE IF ~CanUseConnection(t)
       THEN /\ th' = [th EXCEPT ![t].pc = "raised", ![t].res = Err("ProgrammingError"),
                                 ![t].pre = db]
            /\ UNCHANGED <<cache, nextEntity, nextObservation, nextRelation>>
       ELSE IF plan.stmts = <<>>
       THEN /\ th' = [th EXCEPT ![t].pc = "leaving", ![t].res = plan.res, ![t].pre = db]
            /\ cache' = plan.pre
            /\ UNCHANGED <<nextEntity, nextObservation, nextRelation>>
       ELSE /\ th' = [th EXCEPT ![t] = [pc |-> "entered", op |-> me.op, args |-> me.args,
                                        res |-> plan.res, stmts |-> plan.stmts,
                                        sets |-> plan.sets, patterns |-> plan.patterns,
                                        pre |-> db]]
            /\ cache' = plan.pre
            /\ nextEntity' = nextEntity + (IF me.op = "create_entity" THEN 1 ELSE 0)
            /\ nextObservation' =
                   nextObservation + (IF me.op = "add_observation" THEN 1 ELSE 0)
            /\ nextRelation' = nextRelation + (IF me.op = "create_relation" THEN 1 ELSE 0)
    /\ UNCHANGED <<kg, files, retry, conn, db, rc, refdb, last, work>>

\* execute_with_retry(cursor, statement) inside the open transaction
ExecStmt(t) ==
    /\ th[t].pc = "entered" /\ th[t].stmts # <<>>
    /\ work' = Execute(work, Head(th[t].stmts))
    /\ th' = [th EXCEPT ![t].stmts = Tail(th[t].stmts)]
    /\ UNCHANGED <<kg, files, retry, conn, db, cache, rc, refdb, nextEntity, nextObservation, nextRelation,
                   last, lock>>

\* conn.commit()
Commit(t) ==
    /\ th[t].pc = "entered" /\ th[t].stmts = <<>>
    /\ db' = work
    /\ refdb' = work
    /\ th' = [th EXCEPT ![t].pc = "committed"]
    /\ UNCHANGED <<kg, files, retry, conn, cache, rc, nextEntity, nextObservation, nextRelation, last, work, lock>>

\* the cache entries the operation sets and the patterns it invalidates
Invalidate(t) ==
    /\ th[t].pc = "committed"
    /\ cache' = InvalidateAll(rc, ApplySets(rc, cache, th[t].sets), th[t].patterns)
    /\ th' = [th EXCEPT ![t].pc = "leaving"]
    /\ UNCHANGED <<kg, files, retry, conn, db, rc, refdb, nextEntity, nextObservation, nextRelation, last,
                   work, lock>>

\* a statement or the commit raises inside the operation's try block: the
\* except clause calls conn.rollback() and raises KnowledgeGraphError
FailStmt(t) ==
    /\ th[t].pc = "entered"
    /\ work' = db
    /\ th' = [th EXCEPT ![t].pc = "raised", ![t].res = Err("OperationalError"),
                        ![t].stmts = <<>>]
    /\ UNCHANGED <<kg, files, retry, conn, db, cache, rc, refdb, nextEntity, nextObservation,
                   nextRelation, last, lock>>

\* context_logger.log_event(...) raises after conn.commit(), still inside the
\* operation's try block: the except clause calls conn.rollback(), which has
\* nothing left to undo, and raises KnowledgeGraphError.  create_entity,
\* add_observation and create_relation log before they update the cache, the
\* other operations after
LogEventRaises(t) ==
    /\ IF th[t].op \in {"create_entity", "add_observation", "create_relation"}
       THEN th[t].pc = "committed"
       ELSE th[t].pc = "leaving" /\ th[t].patterns # <<>>
    /\ th' = [th EXCEPT ![t].pc = "raised", ![t].res = Err("KnowledgeGraphError")]
    /\ UNCHANGED <<kg, files, retry, conn, db, cache, rc, refdb, nextEntity, nextObservation,
                   nextRelation, last, work, lock>>

ReleasedOnReturnOnly(t) ==
    IF th[t].pc = "raised" THEN lock
    ELSE [l \in Locks |-> IF lock[l] = t THEN NONE ELSE lock[l]]

\* "with self._lock" is left, by return or by exception
Released(t) == [l \in Locks |-> IF lock[l] = t THEN NONE ELSE lock[l]]

\* the operation returns or raises through "with self._lock" and the API layer
Leave(t) ==
    /\ th[t].pc \in {"leaving", "raised"}
    /\ lock' = Released(t)
    /\ th' = [th EXCEPT ![t].pc = "done", ![t].res = ApiResult(th[t].res)]
    /\ UNCHANGED <<kg, files, retry, conn, db, cache, rc, refdb, nextEntity, nextObservation, nextRelation,
                   last, work>>

\* a read method of the facade, called by thread t
ReadBy(t, call) ==
    LET out == PerformOn(t, call, work, cache, rc) IN
    /\ th[t].pc \in {"idle", "done"}
    /\ cache' = out.cache
    /\ th' = [th EXCEPT ![t] = Idle]
    /\ UNCHANGED <<kg, files, retry, conn, db, rc, refdb, nextEntity, nextObservation, nextRelation, last,
                   work, lock>>

\* the calls the threads make: one write per manager, among them the three
\* writes of several statements, and the reads of what they write
ThreadWrites ==
    {[op |-> "create_entity", args |-> <<n, "f">>] : n \in Names}
    \cup {[op |-> "add_observation", args |-> <<EntityId(1), "o">>],
          [op |-> "create_relation", args |-> <<EntityId(1), EntityId(2), "calls">>],
          [op |-> "clear", args |-> <<>>]}

ThreadReads ==
    {[op |-> "get_entity", args |-> <<EntityId(1)>>],
     [op |-> "get_observations", args |-> <<EntityId(1)>>],
     [op |-> "get_relations", args |-> <<EntityId(1), "both">>],
     [op |-> "get_stats", args |-> <<>>]}

InitThreads ==
    /\ db = EmptyDb
    /\ cache = <<>>
    /\ rc = Client({}, MaxCached)
    /\ refdb = EmptyDb
    /\ nextEntity = 1
    /\ nextObservation = 1
    /\ nextRelation = 1
    /\ last = NoCall
    /\ work = EmptyDb
    /\ lock = [l \in Locks |-> NONE]
    /\ th = [t \in Threads |-> Idle]
    /\ retry = NoRetry
    /\ conn = Constructed
    /\ kg = Initialized(1, Constructed)
    /\ files = <<>>

NextThreads ==
    \/ \E t \in Threads, call \in ThreadWrites : Call(t, call)
    \/ \E t \in Threads : Enter(t)
    \/ \E t \in Threads : ExecStmt(t)
    \/ \E t \in Threads : Commit(t)
    \/ \E t \in Threads : Invalidate(t)
    \/ \E t \in Threads : FailStmt(t)
    \/ \E t \in Threads : LogEventRaises(t)
    \/ \E t \in Threads : Leave(t)
    \/ \E t \in Threads, call \in ThreadReads : ReadBy(t, call)

SpecThreads == InitThreads /\ [][NextThreads]_vars

\* a thread inside a call keeps running, and a thread waiting for the lock
\* gets it if the lock is free again and again
SpecThreadsFair ==
    /\ SpecThreads
    /\ \A t \in Threads :
          /\ SF_vars(Enter(t))
          /\ WF_vars(ExecStmt(t)) /\ WF_vars(Commit(t))
          /\ WF_vars(Invalidate(t)) /\ WF_vars(Leave(t))

(***************************************************************************)
(* Claims about calls from several threads                                 *)
(***************************************************************************)
\* C2: once a write has returned, no read by any thread is served from the
\* cache the value the read had before that write, if the write changed it.
C2_NoPreWriteValueAfterReturn ==
    \A t \in Threads :
        (th[t].pc = "done" /\ th[t].op \in {c.op : c \in WriteCalls}
           /\ th[t].res.status = "ok")
          => \A call \in ReadCalls, u \in Threads :
                (/\ StorageResult(call, th[t].pre) # StorageResult(call, db)
                 /\ CacheHit(rc, cache, ReadKey(call)))
                  => ApiResult(PerformOn(u, call, work, cache, rc).res)
                       # StorageResult(call, th[t].pre)

\* C3: while a write of several statements is open, a read that another
\* thread makes from the storage returns the result of the state before the
\* write or of the state after its commit.
C3_ConcurrentReadSeesPreOrPost ==
    \A t \in Threads :
        (th[t].pc = "entered" /\ th[t].op \in {"add_observation", "create_relation", "clear"})
          => \A u \in Threads \ {t}, call \in ReadCalls :
                (th[u].pc \in {"idle", "done"} /\ ~CacheHit(rc, cache, ReadKey(call)))
                  => ApiResult(PerformOn(u, call, work, cache, rc).res)
                       \in {StorageResult(call, db),
                            StorageResult(call, ExecuteAll(work, th[t].stmts))}

C5_ConcurrentCreatesAllSucceed ==
    [][\A t \in Threads :
          (/\ th[t].pc \in {"leaving", "raised"} /\ th'[t].pc = "done"
           /\ th[t].op = "create_entity")
            => /\ th'[t].res.status = "ok"
               /\ Len(th'[t].res.value) = 1
               /\ th'[t].res.value[1] \in DOMAIN db'.ents
               /\ db'.ents[th'[t].res.value[1]].name = th[t].args[1]
               /\ \A u \in Threads \ {t} :
                     (/\ th[u].pc = "done" /\ th[u].op = "create_entity"
                      /\ th[u].args # th[t].args /\ th[u].res.status = "ok")
                       => th[u].res.value # th'[t].res.value]_vars

\* C33: create_entity calls that several threads make with one (name, type)
\* pair leave one stored entity with the pair, committed and uncommitted rows
\* counted, and each call that met no storage error and no logger error
\* returns that entity's id.
C33_ConcurrentCreatesReturnOneId ==
    /\ \A i \in DOMAIN work.ents, j \in DOMAIN work.ents :
          (work.ents[i].name = work.ents[j].name
             /\ work.ents[i].entity_type = work.ents[j].entity_type) => i = j
    /\ \A t \in Threads :
          (/\ th[t].op = "create_entity" /\ th[t].pc \in {"leaving", "raised"}
           /\ th[t].res.status \notin {"OperationalError", "KnowledgeGraphError"})
            => /\ th[t].res.status = "ok" /\ Len(th[t].res.value) = 1
               /\ LET id == th[t].res.value[1]
                  IN /\ id \in DOMAIN db.ents
                     /\ db.ents[id].name = th[t].args[1]
                     /\ db.ents[id].entity_type = th[t].args[2]

\* C34: while a write's transaction is uncommitted, the only change a step
\* makes to the cache is to store what a read computes from the committed
\* storage content; so after a rollback no cache entry holds a row the
\* rolled-back write had made.
C34_NoUncommittedReadCached ==
    [][(work # db /\ cache' # cache)
          => \E call \in ThreadReads : cache' = Perform(call, db, cache, rc).cache]_vars

\* a write has uncommitted rows that a read of the storage would return, and
\* the cache holds an entry of that read
C34_Witness ==
    \E t \in Threads, call \in ThreadReads :
        /\ InTransaction(t)
        /\ ReadKey(call) \in DOMAIN cache
        /\ Perform(call, work, <<>>, rc).res # Perform(call, db, <<>>, rc).res

Invalidates(t) ==
    /\ th[t].pc \notin {"idle", "done"} /\ th'[t] # th[t]
    /\ \E k \in DOMAIN cache : k \notin DOMAIN cache'

\* C16 (as claimed): in every write operation the order is commit, release
\* of the shared lock, cache invalidation: the invalidation runs after the
\* commit and while the writer does not hold the lock.
C16_CommitReleaseInvalidate ==
    [][\A t \in Threads :
          Invalidates(t) => /\ th[t].pc = "committed" /\ db = work
                            /\ \A l \in Locks : lock[l] # t]_vars

\* C16 (amended): in every write operation the order is commit, cache
\* invalidation, release of the shared lock: the invalidation, whenever it
\* runs, runs after the commit and while the writer holds the lock, and the
\* writer never releases the lock between its commit and its invalidation.
C16_CommitInvalidateRelease ==
    [][\A t \in Threads :
          /\ Invalidates(t) => /\ th[t].pc = "committed" /\ db = work
                               /\ lock["connection"] = t /\ lock'["connection"] = t
          /\ (lock["connection"] = t /\ lock'["connection"] # t)
               => th[t].pc # "committed"]_vars

\* an add_observation committed and took the entity's cached reads out of the
\* cache, other entries stayed, and it still holds the lock
C16_Witness ==
    \E t \in Threads :
        /\ th[t].pc = "leaving" /\ th[t].op = "add_observation"
        /\ th[t].res.status = "ok" /\ db # th[t].pre
        /\ lock["connection"] = t
        /\ StatsKey \in DOMAIN cache
        /\ \A n \in 1..Len(th[t].patterns) : CacheKeys(cache, th[t].patterns[n]) = {}

\* C17: if a write operation ends by raising an error, storage is exactly as
\* it was before the operation began.
C17_RaiseLeavesStorageUnchanged ==
    \A t \in Threads :
        (th[t].pc \in {"leaving", "raised"} /\ th[t].res.status # "ok")
          => db = th[t].pre

(***************************************************************************)
(* A cache client one of whose methods raises on every call                *)
(***************************************************************************)
CacheMethods == {"get", "set", "delete", "keys"}

InitCacheFaults ==
    /\ db = EmptyDb
    /\ cache = <<>>
    /\ rc \in {Client({m}, MaxCachedUnderFaults) : m \in CacheMethods}
    /\ refdb = EmptyDb
    /\ nextEntity = 1
    /\ nextObservation = 1
    /\ nextRelation = 1
    /\ last = NoCall
    /\ work = EmptyDb
    /\ lock = [l \in Locks |-> NONE]
    /\ th = [t \in Threads |-> Idle]
    /\ retry = NoRetry
    /\ conn = Constructed
    /\ kg = Initialized(1, Constructed)
    /\ files = <<>>

NextCacheFaults ==
    \/ \E n \in Names, t \in Types, p \in PropVals : CreateEntity(n, t, p)
    \/ \E i \in EntityIds : DeleteEntity(i)
    \/ \E i \in EntityIds, o \in ObsTexts : AddObservation(i, o)
    \/ \E i \in EntityIds, j \in EntityIds, t \in RelTypes, cf \in Confidences :
          CreateRelation(i, j, t, cf)
    \/ Clear
    \/ \E i \in EntityIds : GetEntity(i)
    \/ \E n \in Names : GetEntityByName(n)
    \/ \E i \in EntityIds : GetObservations(i, DefaultObsLimit)
    \/ \E i \in EntityIds, dir \in Directions : GetRelations(i, dir, NONE)
    \/ \E q \in Queries :
          SearchEntities(q, NONE, DefaultSearchLimit, DefaultMinSimilarity)
    \/ GetStats

SpecCacheFaults == InitCacheFaults /\ [][NextCacheFaults]_vars

\* the read makes a cache call that raises: get on every read, set when the
\* read fetched a result from the storage to store it
RaisesIn(call, d, c, client) ==
    /\ client.on
    /\ \/ "get" \in client.fail
       \/ /\ "set" \in client.fail
          /\ ReadKey(call) \notin DOMAIN c
          /\ Perform(call, d, c, client).stmts > 1

\* C9: a read during which a cache call raises returns what it returns on a
\* graph with no cache, and so does every write while a cache method raises.
C9_CacheErrorsAbsorbed ==
    /\ \A call \in ReadCalls :
          RaisesIn(call, db, cache, rc)
            => Returned(call, db, cache, rc) = StorageResult(call, db)
    /\ rc.fail # {} => WriteResults(db, cache, rc) = WriteResults(db, <<>>, NoClient)

(***************************************************************************)
(* execute_with_retry, one loop step at a time                             *)
(***************************************************************************)
MaxRetriesArg == 6
DefaultMaxRetries == 3

rest == <<db, cache, rc, refdb, nextEntity, nextObservation, nextRelation, last,
          work, lock, th, conn, kg, files>>

\* execute_with_retry(cursor, query, params, max_retries)
RetryCall(max_retries) ==
    /\ retry.pc = "idle"
    /\ retry' = [NoRetry EXCEPT !.pc = "loop", !.max_retries = max_retries]
    /\ UNCHANGED rest

\* while retry_count < max_retries: the condition is false, the function
\* falls off its end and returns None
RetryLoopExit ==
    /\ retry.pc = "loop"
    /\ ~(retry.retry_count < retry.max_retries)
    /\ retry' = [retry EXCEPT !.pc = "returned"]
    /\ UNCHANGED rest

\* one pass of the loop body: cursor.execute and the except clauses
RetryAttempt(outcome) ==
    /\ retry.pc = "loop"
    /\ retry.retry_count < retry.max_retries
    /\ retry' =
         IF outcome = "ok"
         THEN [retry EXCEPT !.pc = "returned", !.log = Append(@, outcome)]
         ELSE IF IsTransient(outcome) /\ MayRetry(retry.retry_count, retry.max_retries)
         THEN [retry EXCEPT !.pc = "sleeping", !.retry_count = @ + 1,
                            !.log = Append(@, outcome)]
         ELSE [retry EXCEPT !.pc = "raised", !.error = outcome,
                            !.log = Append(@, outcome)]
    /\ UNCHANGED rest

\* time.sleep returns
RetrySleep ==
    /\ retry.pc = "sleeping"
    /\ retry' = [retry EXCEPT !.pc = "loop",
                              !.log = Append(@, "sleep" \o ToString(Backoff(retry.retry_count)))]
    /\ UNCHANGED rest

RetryStep ==
    \/ RetryLoopExit
    \/ \E outcome \in AttemptOutcomes : RetryAttempt(outcome)
    \/ RetrySleep

InitRetry ==
    /\ db = EmptyDb
    /\ cache = <<>>
    /\ rc = NoClient
    /\ refdb = EmptyDb
    /\ nextEntity = 1
    /\ nextObservation = 1
    /\ nextRelation = 1
    /\ last = NoCall
    /\ work = EmptyDb
    /\ lock = [l \in Locks |-> NONE]
    /\ th = [t \in Threads |-> Idle]
    /\ retry = NoRetry
    /\ conn = Constructed
    /\ kg = Initialized(1, Constructed)
    /\ files = <<>>

NextRetry ==
    \/ \E m \in 0..MaxRetriesArg : RetryCall(m)
    \/ RetryLoopExit
    \/ \E outcome \in AttemptOutcomes : RetryAttempt(outcome)
    \/ RetrySleep

\* the function is sequential code: once called it keeps running
SpecRetry == InitRetry /\ [][NextRetry]_vars /\ WF_vars(RetryStep)

Attempts == SelectSeq(retry.log, LAMBDA x : x \in AttemptOutcomes)
RetryEnded == retry.pc \in {"returned", "raised"}

\* C11: the statement is executed at most max_retries times, the call always
\* ends, and a call all of whose attempts failed with the transient locked
\* error has made max_retries attempts and raises that error.
C11_RetryBoundedAndRaisesLast ==
    /\ [](/\ Len(Attempts) <= retry.max_retries
          /\ (/\ RetryEnded /\ Attempts # <<>>
              /\ \A i \in 1..Len(Attempts) : Attempts[i] = "locked")
               => /\ retry.pc = "raised"
                  /\ retry.error = Attempts[Len(Attempts)]
                  /\ Len(Attempts) = retry.max_retries)
    /\ (retry.pc \in {"loop", "sleeping"} ~> RetryEnded)

\* a call with the default ceiling has failed three times with the locked
\* error and raised it
C11_Witness ==
    /\ retry.pc = "raised" /\ retry.max_retries = DefaultMaxRetries
    /\ Attempts = <<"locked", "locked", "locked">>
    /\ retry.error = "locked"

\* C12: an attempt that raises another error than the transient locked one
\* is the last event of the call: the call raises that error, with no attempt
\* and no sleep after it.
C12_OtherErrorPropagatesAtOnce ==
    \A i \in 1..Len(retry.log) :
        retry.log[i] \in AttemptOutcomes \ {"ok", "locked"}
          => /\ i = Len(retry.log)
             /\ retry.pc = "raised"
             /\ retry.error = retry.log[i]

\* the second attempt, after one retry, raised an OperationalError that is
\* not the locked one
C12_Witness ==
    /\ retry.pc = "raised"
    /\ retry.log = <<"locked", "sleep2", "operational">>

(***************************************************************************)
(* KnowledgeGraphConnection: get_connection and close, each under the lock *)
(***************************************************************************)
MaxConnections == 4

restOfGraph == <<db, cache, rc, refdb, nextEntity, nextObservation, nextRelation, last,
                 work, lock, th, retry, kg, files>>

\* the call record every call on the manager leaves
Called(c, op, t, res) ==
    [c EXCEPT !.op = op, !.by = t, !.res = res,
              !.pre = [cur |-> conn.cur, live |-> conn.live]]

\* sqlite3.Connection.close() on thread t: with check_same_thread it raises
\* ProgrammingError on every thread but the one that opened the connection
CanClose(c, t) == ~CheckSameThread \/ c.owner[c.cur] = t

\* get_connection(): opens = whether sqlite3.connect and the PRAGMA succeed
GetConnection(t, opens) ==
    /\ conn' = IF conn.cur # 0 THEN Called(conn, "get_connection", t, "ok")
               ELSE IF opens /\ conn.made < MaxConnections
               THEN Called(Opened(conn, t), "get_connection", t, "ok")
               ELSE Called(conn, "get_connection", t, "KnowledgeGraphError")
    /\ UNCHANGED restOfGraph

\* close(): an exception of self._conn.close() is logged and swallowed, and
\* the finally clause sets self._conn = None in every case
CloseConnection(t) ==
    /\ conn' = IF conn.cur = 0 THEN Called(conn, "close", t, "ok")
               ELSE Called([conn EXCEPT !.cur = 0,
                                        !.live = IF CanClose(conn, t)
                                                 THEN conn.live \ {conn.cur}
                                                 ELSE conn.live],
                           "close", t, "ok")
    /\ UNCHANGED restOfGraph

\* the graph as constructed: the constructor has opened the connection
InitConnection == InitRetry

NextConnection ==
    \/ \E t \in Threads, opens \in BOOLEAN : GetConnection(t, opens)
    \/ \E t \in Threads : CloseConnection(t)

SpecConnection == InitConnection /\ [][NextConnection]_vars

\* C14: the manager is Uninitialized with no live connection or Open with
\* exactly one; it is Uninitialized until the first get_connection; and its
\* state changes only from Uninitialized to Open by get_connection and from
\* Open to Uninitialized by close.
C14_UninitializedOrOpen ==
    /\ \/ conn.cur = 0 /\ conn.live = {}
       \/ conn.cur # 0 /\ conn.live = {conn.cur}
    /\ conn.op \in {"none", "__init__"} => conn.cur = 0
    /\ (conn.cur = 0) # (conn.pre.cur = 0)
         => \/ conn.pre.cur = 0 /\ conn.op = "get_connection"
            \/ conn.cur = 0 /\ conn.op = "close"

\* C15: a close() on a manager without connection raises nothing and changes
\* nothing; a get_connection() on a manager without connection that returns
\* has opened a connection that did not exist before, is live, has
\* foreign_keys = ON and belongs to the calling thread.
C15_CloseIdempotentAndReopen ==
    /\ (conn.op = "close" /\ conn.pre.cur = 0)
         => conn.res = "ok" /\ conn.cur = 0 /\ conn.live = conn.pre.live
    /\ (conn.op = "get_connection" /\ conn.pre.cur = 0 /\ conn.res = "ok")
         => /\ conn.cur # 0 /\ conn.cur \notin conn.pre.live
            /\ conn.cur \in conn.live /\ conn.cur \in conn.fk
            /\ conn.owner[conn.cur] = conn.by

\* the constructor's connection was closed and get_connection opened a
\* second one
C15_Witness ==
    /\ conn.op = "get_connection" /\ conn.pre.cur = 0 /\ conn.res = "ok"
    /\ conn.cur = 2 /\ conn.live = {2}

(***************************************************************************)
(* backup and restore: the storage file is copied to a backup file and a   *)
(* backup file is copied over the storage file                             *)
(***************************************************************************)
MaxBackups == 2

Copy2Truncated(content) == EmptyDb

\* shutil.copy2(src, dst): dst holds what src holds
Copy2(content) == content

\* backup_knowledge_graph: the file written, taken = the graph it was written
\* from, ref = the file the twin graph writes
BackupFile == [content |-> Copy2(db), taken |-> db, ref |-> Copy2(refdb)]

\* KnowledgeGraph.backup: the file is named after the second it is written
\* in, so a backup in the second of the previous one replaces that file
Backup(same_second) ==
    /\ IF same_second
       THEN files # <<>> /\ files' = [files EXCEPT ![Len(files)] = BackupFile]
       ELSE Len(files) < MaxBackups /\ files' = Append(files, BackupFile)
    /\ last' = NoCall
    /\ UNCHANGED <<kg, retry, conn, db, cache, rc, refdb, nextEntity, nextObservation,
                   nextRelation, work, lock, th>>

\* what KnowledgeGraph.restore leaves, given an existing backup file: the API
\* closes the connection, restore_knowledge_graph copies the file over the
\* storage file, and the facade constructs a new KnowledgeGraphConnection,
\* the managers and the APIs and invalidates "kg:stats"
restore(file) ==
    LET closed == [conn EXCEPT !.cur = 0,
                               !.live = IF conn.cur # 0 /\ CanClose(conn, Creator)
                                        THEN conn.live \ {conn.cur} ELSE conn.live]
        reopened == Opened(closed, Creator)
    IN [db |-> Copy2(file.content), refdb |-> Copy2(file.ref),
        cache |-> invalidate_cache(rc, cache, StatsKey),
        conn |-> Called(reopened, "__init__", Creator, "ok"),
        kg |-> Initialized(kg.connection + 1, reopened)]

Restore(f) ==
    /\ f \in DOMAIN files /\ conn.made < MaxConnections
    /\ LET restored == restore(files[f])
       IN /\ db' = restored.db /\ work' = restored.db /\ refdb' = restored.refdb
          /\ cache' = restored.cache /\ conn' = restored.conn /\ kg' = restored.kg
    /\ last' = [op |-> "restore", args |-> <<f>>, res |-> Ok(<<TRUE>>),
                before |-> [empty |-> db = EmptyDb, keys |-> DOMAIN cache], warm |-> {}]
    /\ UNCHANGED <<files, retry, rc, nextEntity, nextObservation, nextRelation, lock, th>>

InitBackup ==
    /\ rc \in {NoClient, Client({}, MaxCachedEntityReads)}
    /\ db = EmptyDb /\ cache = <<>> /\ refdb = EmptyDb /\ work = EmptyDb
    /\ nextEntity = 1 /\ nextObservation = 1 /\ nextRelation = 1
    /\ last = NoCall
    /\ lock = [l \in Locks |-> NONE]
    /\ th = [t \in Threads |-> Idle]
    /\ retry = NoRetry
    /\ conn = Constructed
    /\ kg = Initialized(1, Constructed)
    /\ files = <<>>

NextBackup ==
    \/ \E n \in Names, t \in Types, p \in PropVals : CreateEntity(n, t, p)
    \/ \E i \in EntityIds : DeleteEntity(i)
    \/ \E i \in EntityIds, o \in ObsTexts : AddObservation(i, o)
    \/ Clear
    \/ \E i \in EntityIds : GetEntity(i)
    \/ GetStats
    \/ \E same_second \in BOOLEAN : Backup(same_second)
    \/ \E f \in 1..MaxBackups : Restore(f)

SpecBackup == InitBackup /\ [][NextBackup]_vars

C28_ManagersOnNewConnection ==
    /\ \A m \in FacadeManagers :
          /\ kg.managers[m].conn = conn.cur /\ conn.cur \in conn.live
          /\ kg.managers[m].lock = kg.connection
    /\ conn.live = {conn.cur}
    /\ \A f \in DOMAIN files :
          LET restored == restore(files[f])
          IN /\ restored.conn.cur \notin conn.live \cup {0}
             /\ restored.conn.live = {restored.conn.cur}
             /\ restored.kg.connection # kg.connection
             /\ \A m \in FacadeManagers :
                   /\ restored.kg.managers[m].conn = restored.conn.cur
                   /\ restored.kg.managers[m].lock = restored.kg.connection
             /\ restored.db = files[f].content

\* a restore has replaced the constructor's connection, and an entity was
\* created through the new managers afterwards
C28_Witness ==
    /\ kg.connection = 2 /\ conn.cur = 2 /\ conn.live = {2}
    /\ last.op = "create_entity" /\ last.res.status = "ok"
    /\ files # <<>> /\ db # files[1].content

\* C29: a restore on a graph with a cache leaves no entry that was cached
\* before it.
C29_RestoreFlushesCache ==
    \A f \in DOMAIN files :
        rc.on => DOMAIN restore(files[f]).cache \cap DOMAIN cache = {}

(***************************************************************************)
(* search_entities with a type filter, a limit and a minimum similarity    *)
(***************************************************************************)
\* entity types; the second is a type that reads like the query
SearchTypes == {"f", "a"}
SearchLimits == {1, DefaultSearchLimit}
\* min_similarity in hundredths: the default and 0.9
MinSimilarities == {DefaultMinSimilarity, 90}

NextSearch ==
    \/ \E n \in Names, t \in SearchTypes, p \in PropVals : CreateEntity(n, t, p)
    \/ \E i \in EntityIds : DeleteEntity(i)
    \/ \E q \in Queries, t \in {NONE, "f"}, limit \in SearchLimits,
          min_similarity \in MinSimilarities :
          SearchEntities(q, t, limit, min_similarity)
    \/ CacheExpire

SpecSearch == InitEntities /\ [][NextSearch]_vars

\* the results a search_entities call returns in the current state
Found(query, entity_type, limit, min_similarity) ==
    ApiResult(search_entities(db, cache, rc, query, entity_type, limit,
                              min_similarity).res)

\* C31: search_entities returns at most limit results, each with a similarity
\* of at least min_similarity, in order of non-increasing similarity.
C31_LimitedFilteredSorted ==
    \A q \in Queries, t \in {NONE, "f"}, limit \in SearchLimits,
       min_similarity \in MinSimilarities :
        LET found == Found(q, t, limit, min_similarity) IN
        /\ found.status = "ok"
        /\ Len(found.value) <= limit
        /\ \A n \in 1..Len(found.value) : found.value[n].similarity >= min_similarity
        /\ \A n \in 1..Len(found.value), m \in 1..Len(found.value) :
              n < m => found.value[n].similarity >= found.value[m].similarity

\* two entities match the query, the one stored first with the lower
\* similarity; a search with limit 1 has been answered and cached, and it
\* returned the other one
C31_Witness ==
    /\ Cardinality(DOMAIN db.ents) = 2
    /\ \A i \in DOMAIN db.ents : db.ents[i].rowid = 1 => db.ents[i].name = "ab"
    /\ CacheHit(rc, cache, get_cache_key("search_entities", <<"a", "None", "1", "0.0">>))
    /\ LET found == Found("a", NONE, 1, 0)
       IN Len(found.value) = 1 /\ found.value[1].name = "a"
            /\ found.value[1].similarity = 100

\* C39: no entity that matches the query and the type filter with a
\* similarity of at least min_similarity is left out of the results while a
\* returned entity has a strictly lower similarity, and when at most limit
\* entities qualify the results are exactly these.
C39_BestMatchesReturned ==
    \A q \in Queries, t \in {NONE, "f"}, limit \in SearchLimits,
       min_similarity \in MinSimilarities :
        LET found == Found(q, t, limit, min_similarity)
            qualifying == {i \in DOMAIN db.ents :
                             /\ Contains(db.ents[i].name, q)
                             /\ t = NONE \/ db.ents[i].entity_type = t
                             /\ TextSimilarity(db.ents[i].name, q) >= min_similarity}
            returned == {found.value[n].id : n \in 1..Len(found.value)}
        IN /\ found.status = "ok"
           /\ returned \subseteq qualifying
           /\ \A i \in qualifying \ returned, n \in 1..Len(found.value) :
                 found.value[n].similarity >= TextSimilarity(db.ents[i].name, q)
           /\ Cardinality(qualifying) <= limit => returned = qualifying

(***************************************************************************)
(* Entities and observations written with empty and non-empty fields       *)
(***************************************************************************)
NextFields ==
    \/ \E n \in Names \cup {""}, t \in Types \cup {""}, p \in PropVals :
          CreateEntity(n, t, p)
    \/ \E i \in EntityIds, n \in Names \cup {"", NONE}, t \in Types \cup {"", NONE} :
          UpdateEntity(i, n, t, NONE)
    \/ \E i \in EntityIds, o \in ObsTexts \cup {""} : AddObservation(i, o)
    \/ \E i \in EntityIds : GetEntity(i)

SpecFields == InitEntities /\ [][NextFields]_vars

\* C32: every stored entity has a non-empty name and a non-empty type, and
\* every stored observation a non-empty body.
C32_StoredFieldsNonEmpty ==
    /\ \A i \in DOMAIN db.ents : db.ents[i].name # "" /\ db.ents[i].entity_type # ""
    /\ \A o \in DOMAIN db.obs : db.obs[o].observation # ""

\* C40: no two stored entities have the same name and the same type.
C40_NameTypeUnique ==
    \A i \in DOMAIN db.ents, j \in DOMAIN db.ents :
        (db.ents[i].name = db.ents[j].name
           /\ db.ents[i].entity_type = db.ents[j].entity_type) => i = j

(***************************************************************************)
(* The facade after close() and after a restore that fails                 *)
(***************************************************************************)
\* the manager's self.conn is a connection that is still open
OnLiveConnection(manager) == kg.managers[manager].conn \in conn.live

\* self.conn.cursor() on a closed connection raises ProgrammingError("Cannot
\* operate on a closed database"), and so does the rollback of the except
\* clause; storage and cache stay as they are
Refused(op, args) ==
    /\ last' = [op |-> op, args |-> args, res |-> ApiResult(Err("ProgrammingError")),
                before |-> NONE, warm |-> {}]
    /\ UNCHANGED <<kg, files, retry, conn, db, cache, rc, refdb, nextEntity,
                   nextObservation, nextRelation, work, lock, th>>

\* KnowledgeGraph.create_entity through the entity manager's self.conn
CreateEntityOnFacade(name, entity_type, properties) ==
    IF OnLiveConnection("entity")
    THEN CreateEntity(name, entity_type, properties)
    ELSE Refused("create_entity", <<name, entity_type>>)

\* KnowledgeGraph.get_entity: the cache is read before the connection is used
GetEntityOnFacade(entity_id) ==
    IF OnLiveConnection("entity")
         \/ CacheHit(rc, cache, get_cache_key("get_entity", <<entity_id>>))
    THEN GetEntity(entity_id)
    ELSE Refused("get_entity", <<entity_id>>)

\* KnowledgeGraph.get_stats
GetStatsOnFacade ==
    IF OnLiveConnection("maintenance") \/ CacheHit(rc, cache, StatsKey)
    THEN GetStats
    ELSE Refused("get_stats", <<>>)

\* KnowledgeGraph.restore of a backup file that does not exist: the API
\* closes the connection, restore_knowledge_graph raises ValueError before it
\* touches the storage file, and the facade's re-initialization is skipped
RestoreFails(f) ==
    /\ f \notin DOMAIN files
    /\ conn' = Called([conn EXCEPT !.cur = 0,
                                   !.live = IF conn.cur # 0 /\ CanClose(conn, Creator)
                                            THEN conn.live \ {conn.cur} ELSE conn.live],
                      "close", Creator, "ok")
    /\ last' = [op |-> "restore", args |-> <<f>>, res |-> ApiResult(Err("ValueError")),
                before |-> [empty |-> db = EmptyDb, keys |-> DOMAIN cache], warm |-> {}]
    /\ UNCHANGED <<kg, files, retry, db, cache, rc, refdb, nextEntity, nextObservation,
                   nextRelation, work, lock, th>>

NextFacade ==
    \/ \E n \in Names, t \in Types, p \in PropVals : CreateEntityOnFacade(n, t, p)
    \/ \E i \in EntityIds : GetEntityOnFacade(i)
    \/ GetStatsOnFacade
    \* KnowledgeGraph.close(): self._connection.close()
    \/ CloseConnection(Creator)
    \/ Backup(FALSE)
    \/ \E f \in 1..MaxBackups : Restore(f)
    \/ \E f \in 1..MaxBackups : RestoreFails(f)

SpecFacade == InitEntities /\ [][NextFacade]_vars

\* C35: no operation of the facade, after close() or not, ends with the
\* error of a statement executed on a closed connection: it returns a result
\* or EntityNotFoundError.
C35_OperationsOnLiveConnection ==
    last.op \in {"create_entity", "get_entity", "get_stats"}
       => last.res.status \in {"ok", "EntityNotFoundError"}

\* C36: a restore that fails leaves the stored content as it was and every
\* manager of the graph instance on an open connection, so that the reads and
\* writes after it succeed.
C36_FailedRestoreLeavesGraphUsable ==
    [][(last'.op = "restore" /\ last'.res.status # "ok")
          => /\ db' = db
             /\ \A m \in FacadeManagers : kg'.managers[m].conn \in conn'.live]_vars

(***************************************************************************)
(* backup and restore called by threads while a thread writes              *)
(***************************************************************************)
\* the locks of the KnowledgeGraphConnection instances the facade has held
LockInstances == 1..MaxConnections

\* the facade hands the call to the manager it holds at the time of the call;
\* the manager works with its own self.conn and self._lock from then on
Captured(op, args, manager) ==
    [pc |-> "waiting", op |-> op, args |-> args, res |-> Ok(<<>>), stmts |-> <<>>,
     conn |-> kg.managers[manager].conn, lock |-> kg.managers[manager].lock]

\* sqlite3 with check_same_thread: the connection is open and thread t
\* opened it
UsableBy(t, c) == c \in conn.live /\ conn.owner[c] = t

\* KnowledgeGraph.create_entity up to "with self._lock" of the entity manager
CallCreateEntity(t, name) ==
    /\ th[t].pc = "idle" /\ nextEntity <= MaxEntities
    /\ th' = [th EXCEPT ![t] = Captured("create_entity", <<name, "f">>, "entity")]
    /\ UNCHANGED <<kg, files, retry, conn, db, cache, rc, refdb, nextEntity, nextObservation,
                   nextRelation, last, work, lock>>

\* KnowledgeGraph.backup up to "with self._lock" of the maintenance manager
CallBackup(t) ==
    /\ th[t].pc = "idle" /\ Len(files) < MaxBackups
    /\ th' = [th EXCEPT ![t] = Captured("backup", <<>>, "maintenance")]
    /\ UNCHANGED <<kg, files, retry, conn, db, cache, rc, refdb, nextEntity, nextObservation,
                   nextRelation, last, work, lock>>

\* KnowledgeGraph.restore up to "with self._lock" of the maintenance manager:
\* the API has called self._connection.close(), which takes and releases the
\* connection's lock; the sqlite connection is closed if t opened it, and
\* left open and unreferenced otherwise
CallRestore(t, f) ==
    /\ th[t].pc = "idle" /\ f \in DOMAIN files
    /\ conn.made + Cardinality({u \in Threads : th[u].op = "restore"}) < MaxConnections
    /\ lock[kg.connection] = NONE
    /\ conn' = Called([conn EXCEPT !.cur = 0,
                                   !.live = IF conn.cur # 0 /\ CanClose(conn, t)
                                            THEN conn.live \ {conn.cur} ELSE conn.live],
                      "close", t, "ok")
    /\ th' = [th EXCEPT ![t] = Captured("restore", <<f>>, "maintenance")]
    /\ UNCHANGED <<kg, files, retry, db, cache, rc, refdb, nextEntity, nextObservation,
                   nextRelation, last, work, lock>>

\* "with self._lock": create_entity runs to its INSERT, backup and restore to
\* their shutil.copy2
Acquire(t) ==
    LET me == th[t]
        plan == create_entity(work, <<>>, NoClient, me.args[1], me.args[2], "p",
                              EntityId(nextEntity))
    IN /\ me.pc = "waiting" /\ lock[me.lock] = NONE
       /\ lock' = [lock EXCEPT ![me.lock] = t]
       /\ IF me.op = "backup" THEN th' = [th EXCEPT ![t].pc = "copying"]
          ELSE IF me.op = "restore" THEN th' = [th EXCEPT ![t].pc = "swapping"]
          ELSE IF ~UsableBy(t, me.conn)
          THEN th' = [th EXCEPT ![t].pc = "leaving", ![t].res = Err("ProgrammingError")]
          ELSE IF plan.stmts = <<>>
          THEN th' = [th EXCEPT ![t].pc = "leaving", ![t].res = plan.res]
          ELSE th' = [th EXCEPT ![t].pc = "entered", ![t].res = plan.res,
                                ![t].stmts = plan.stmts]
       /\ nextEntity' = IF /\ me.op = "create_entity" /\ UsableBy(t, me.conn)
                            /\ plan.stmts # <<>>
                         THEN nextEntity + 1 ELSE nextEntity
       /\ UNCHANGED <<kg, files, retry, conn, db, cache, rc, refdb, nextObservation,
                      nextRelation, last, work>>

\* execute_with_retry(cursor, "INSERT ...") inside the open transaction
ExecuteInsert(t) ==
    /\ th[t].pc = "entered" /\ th[t].stmts # <<>>
    /\ work' = Execute(work, Head(th[t].stmts))
    /\ th' = [th EXCEPT ![t].stmts = Tail(th[t].stmts)]
    /\ UNCHANGED <<kg, files, retry, conn, db, cache, rc, refdb, nextEntity, nextObservation,
                   nextRelation, last, lock>>

\* conn.commit()
CommitInsert(t) ==
    /\ th[t].pc = "entered" /\ th[t].stmts = <<>>
    /\ db' = work
    /\ th' = [th EXCEPT ![t].pc = "leaving"]
    /\ UNCHANGED <<kg, files, retry, conn, cache, rc, refdb, nextEntity, nextObservation,
                   nextRelation, last, work, lock>>

\* backup_knowledge_graph: shutil.copy2(db_path, db_backup_full_path)
CopyToBackup(t) ==
    /\ th[t].pc = "copying"
    /\ files' = Append(files, BackupFile)
    /\ th' = [th EXCEPT ![t].pc = "leaving", ![t].res = Ok(<<Len(files) + 1>>)]
    /\ UNCHANGED <<kg, retry, conn, db, cache, rc, refdb, nextEntity, nextObservation,
                   nextRelation, last, work, lock>>

\* restore_knowledge_graph: shutil.copy2(backup_file_path, db_path)
SwapStorage(t) ==
    /\ th[t].pc = "swapping"
    /\ db' = Copy2(files[th[t].args[1]].content)
    /\ work' = db'
    /\ th' = [th EXCEPT ![t].pc = "leaving", ![t].res = Ok(<<TRUE>>)]
    /\ UNCHANGED <<kg, files, retry, conn, cache, rc, refdb, nextEntity, nextObservation,
                   nextRelation, last, lock>>

\* "with self._lock" is left; create_entity and backup return to the caller
Release(t) ==
    /\ th[t].pc = "leaving"
    /\ lock' = [lock EXCEPT ![th[t].lock] = NONE]
    /\ th' = [th EXCEPT ![t] = IF th[t].op = "restore"
                               THEN [th[t] EXCEPT !.pc = "restored"] ELSE Idle]
    /\ UNCHANGED <<kg, files, retry, conn, db, cache, rc, refdb, nextEntity, nextObservation,
                   nextRelation, last, work>>

\* KnowledgeGraph.restore after success: a new KnowledgeGraphConnection,
\* opened by thread t and with a lock of its own, and new managers on it
Reinitialize(t) ==
    /\ th[t].pc = "restored"
    /\ conn' = Called(Opened(conn, t), "__init__", t, "ok")
    /\ kg' = Initialized(kg.connection + 1, Opened(conn, t))
    /\ th' = [th EXCEPT ![t] = Idle]
    /\ UNCHANGED <<files, retry, db, cache, rc, refdb, nextEntity, nextObservation,
                   nextRelation, last, work, lock>>

InitMaintenanceThreads ==
    /\ db = EmptyDb /\ cache = <<>> /\ rc = NoClient /\ refdb = EmptyDb /\ work = EmptyDb
    /\ nextEntity = 1 /\ nextObservation = 1 /\ nextRelation = 1
    /\ last = NoCall
    /\ lock = [l \in LockInstances |-> NONE]
    /\ th = [t \in Threads |-> Idle]
    /\ retry = NoRetry
    /\ conn = Constructed
    /\ kg = Initialized(1, Constructed)
    /\ files = <<>>

NextMaintenanceThreads ==
    \/ \E t \in Threads, n \in Names : CallCreateEntity(t, n)
    \/ \E t \in Threads : CallBackup(t)
    \/ \E t \in Threads, f \in 1..MaxBackups : CallRestore(t, f)
    \/ \E t \in Threads : Acquire(t)
    \/ \E t \in Threads : ExecuteInsert(t)
    \/ \E t \in Threads : CommitInsert(t)
    \/ \E t \in Threads : CopyToBackup(t)
    \/ \E t \in Threads : SwapStorage(t)
    \/ \E t \in Threads : Release(t)
    \/ \E t \in Threads : Reinitialize(t)

SpecMaintenanceThreads == InitMaintenanceThreads /\ [][NextMaintenanceThreads]_vars

\* C37: while a thread is at the copy of backup or at the swap of restore, no
\* thread is between the first statement of a write and its commit.
C37_CopyAndSwapExcludeTransactions ==
    \A t \in Threads, u \in Threads :
        th[t].pc \in {"copying", "swapping"}
          => ~(th[u].pc = "entered" /\ th[u].stmts = <<>>)

(***************************************************************************)
(* get_cache_key on the parameter tuples of read calls                     *)
(***************************************************************************)
\* the keyword names used below, in the order sorted() gives them
Keywords == <<"direction", "entity_id">>

\* for k, v in sorted(kwargs.items()): key_parts.append(f"{k}={v}"), with
\* kwargs a sequence of <<name, value>> pairs in the order of the call
SortedKwargs(kwargs) ==
    LET at(k) == CHOOSE i \in DOMAIN kwargs : kwargs[i][1] = k
        given == SelectSeq(Keywords, LAMBDA k : \E i \in DOMAIN kwargs : kwargs[i][1] = k)
    IN [n \in 1..Len(given) |-> given[n] \o "=" \o Str(kwargs[at(given[n])][2])]

\* get_cache_key(operation, *args, **kwargs)
get_cache_key_kwargs(operation, args, kwargs) ==
    "kg:" \o operation \o ":"
      \o Md5(JoinColon(<<operation>> \o [i \in DOMAIN args |-> Str(args[i])]
                         \o SortedKwargs(kwargs)))

\* parameter tuples of get_relations(entity_id, direction, relation_type) and
\* of get_cache_key calls with keyword arguments in both orders
KeyCalls ==
    {[operation |-> "get_relations", args |-> <<e, d, t>>, kwargs |-> <<>>] :
        e \in {"e1", "e1:both"}, d \in Directions,
        t \in {NONE, "None", "calls", "both:calls"}}
    \cup {[operation |-> "get_relations", args |-> <<>>,
           kwargs |-> <<<<"entity_id", e>>, <<"direction", d>>>>] :
             e \in {"e1", "e2"}, d \in Directions}
    \cup {[operation |-> "get_relations", args |-> <<>>,
           kwargs |-> <<<<"direction", d>>, <<"entity_id", e>>>>] :
             e \in {"e1", "e2"}, d \in Directions}

\* the same operation, positional arguments and keyword arguments
SameParameters(c1, c2) ==
    /\ c1.operation = c2.operation /\ c1.args = c2.args
    /\ {c1.kwargs[i] : i \in DOMAIN c1.kwargs} = {c2.kwargs[i] : i \in DOMAIN c2.kwargs}

InitCacheKeys ==
    /\ db = EmptyDb /\ cache = <<>> /\ rc = Client({}, MaxCached) /\ refdb = EmptyDb
    /\ work = EmptyDb
    /\ nextEntity = 1 /\ nextObservation = 1 /\ nextRelation = 1
    /\ \E c1 \in KeyCalls, c2 \in KeyCalls : last = [NoCall EXCEPT !.args = <<c1, c2>>]
    /\ lock = [l \in Locks |-> NONE]
    /\ th = [t \in Threads |-> Idle]
    /\ retry = NoRetry
    /\ conn = Constructed
    /\ kg = Initialized(1, Constructed)
    /\ files = <<>>

\* the keys of the two calls
GetCacheKeys ==
    /\ last.op = "none"
    /\ last' = [last EXCEPT
                  !.op = "get_cache_key",
                  !.res = Ok(<<get_cache_key_kwargs(last.args[1].operation, last.args[1].args,
                                                    last.args[1].kwargs),
                               get_cache_key_kwargs(last.args[2].operation, last.args[2].args,
                                                    last.args[2].kwargs)>>)]
    /\ UNCHANGED <<kg, files, retry, conn, db, cache, rc, refdb, nextEntity, nextObservation,
                   nextRelation, work, lock, th>>

NextCacheKeys == GetCacheKeys

SpecCacheKeys == InitCacheKeys /\ [][NextCacheKeys]_vars

\* C38: two calls get the same cache key exactly when they have the same
\* operation and the same parameters, keyword arguments in any order.
C38_KeyDeterminedByParameters ==
    last.op = "get_cache_key"
      => (last.res.value[1] = last.res.value[2]
            <=> SameParameters(last.args[1], last.args[2]))

====
